---------------------------- MODULE Spec2Model ----------------------------
(***************************************************************************)
(* Traffic-signal controller backend (backend/arduino_controller.py and    *)
(* backend/main.py): the dispatch cycle send_traffic_data with its lazily  *)
(* created non-blocking lock, the active-emergency table, the arbitration  *)
(* of emergency lanes, and the per-lane throttle of detect_frame.          *)
(*                                                                         *)
(* Time is an integer number of seconds.  Coordinates of a detection are   *)
(* kept in tenths (x10 = 10 * x), distances as squared tenth-pixels, so    *)
(* that every comparison of the code is an integer comparison.             *)
(***************************************************************************)
EXTENDS Integers, Sequences, FiniteSets, TLC

(***************************************************************************)
(* Bounds of the model.                                                    *)
(***************************************************************************)
MaxLane == 3
MaxBatch == 2
MaxElapsed == 11
MaxBacklog == 0

(***************************************************************************)
(* Program constants.                                                      *)
(***************************************************************************)
ExpirySeconds == 10
ThrottleSeconds == 2
image_width == 640
image_height == 480
Epoch == 20

Lanes == 1..MaxLane
Threads == {1, 2}
NoLock == 0

(***************************************************************************)
(* Detections and lane entries of a batch.                                 *)
(***************************************************************************)
Car == [class |-> "car", x10 |-> 5, y10 |-> 5]
EmergencyNear == [class |-> "emergency-vehicle", x10 |-> 1, y10 |-> 1]
EmergencyFar == [class |-> "emergency-vehicle", x10 |-> 5, y10 |-> 9]

\* The substrings send_traffic_data looks for in a lowercased class name.
is_emergency_class(class_name) ==
    class_name \in {"emergency-vehicle", "emergency", "ambulance", "police",
                    "fire truck", "firetruck", "fire_truck", "emergency vehicle"}

\* main.py derives the flag from the detections: class == 'emergency-vehicle'.
has_emergency_of(detections) ==
    \E i \in 1..Len(detections) : detections[i].class = "emergency-vehicle"

DetLists == { <<>>, <<Car, Car>>, <<EmergencyNear>>, <<Car, EmergencyFar>>, <<Car>> }

Road(id, detections, flag) ==
    [id |-> id, detections |-> detections, hasEmergencyVehicle |-> flag]

\* Entries as the detection endpoints build them (flag derived upstream).
DerivedRoads ==
    { Road(id, d, has_emergency_of(d)) : id \in Lanes, d \in DetLists \ {<<Car>>} }

\* Entries as /arduino/update_traffic forwards them: the flag is whatever the
\* client sent.
RawRoads ==
    { Road(id, d, f) : id \in Lanes, d \in {<<>>, <<Car>>, <<EmergencyNear>>},
                       f \in BOOLEAN }

SeqsUpTo(S, n) == UNION { [1..k -> S] : k \in 1..n }

(***************************************************************************)
(* State.                                                                  *)
(*   connected, serial_connection, command_queue                           *)
(*                                ArduinoController fields                 *)
(*   active_emergencies           emergency_vehicle_state's table, as the  *)
(*                                dict keeps it: in insertion order        *)
(*   lockAttr, lockHeld           send_traffic_data._lock (NoLock: the     *)
(*                                attribute is not set yet) and the lock   *)
(*                                objects currently held                   *)
(*   now                          the clock, time.time()                   *)
(* Per thread running send_traffic_data:                                   *)
(*   pc, data, lock, current_time the position and the locals              *)
(*   active                       active_emergencies as read at line 230   *)
(*   plan                         the update_road_data calls still to make,*)
(*                                in order, each with its delay flag       *)
(*   sent                         the update_road_data calls made          *)
(*   ret                          the return value                         *)
(*   callConnected                connected, as it was when called         *)
(* main.py:                                                                *)
(*   emergency_override           the override dict: active, lanes         *)
(*   last_arduino_send            detect_frame._last_arduino_send          *)
(*   last_sent_detections         detect_frame._last_sent_detections       *)
(*   arduino_lock                 the asyncio.Lock: holder and waiters     *)
(*   req                          per request coroutine: position, locals  *)
(*   last_update                  per lane, the last Update handed to the  *)
(*                                device link by a request: when, count    *)
(* The link in detail:                                                     *)
(*   conn, disc                   the connect() and the disconnect() call  *)
(*                                in progress: position and locals         *)
(*   comm_thread, response_thread the loops connect() starts               *)
(*   rx                           what the device has sent on the channel  *)
(*                                and nobody has read yet                  *)
(*   io_fault                     every operation on the channel raises    *)
(*   send_ret                     the result of the last send              *)
(*   old_loops                    the writer loops of earlier connect()    *)
(*                                calls that are still running             *)
(*   in_hand                      the commands a writer loop has taken     *)
(*                                from the queue and not yet written, in   *)
(*                                the order taken (where the model shows   *)
(*                                the take and the write as two steps)     *)
(***************************************************************************)
VARIABLES connected, serial_connection, command_queue, active_emergencies,
          lockAttr, lockHeld, now, pc, data, lock, current_time, active, plan,
          sent, ret, callConnected,
          emergency_override, last_arduino_send, last_sent_detections,
          arduino_lock, req, last_update,
          conn, disc, comm_thread, response_thread, rx, io_fault, send_ret,
          old_loops, in_hand

linkVars == <<connected, serial_connection, command_queue>>
cycleVars == <<pc, data, lock, current_time, active, plan, sent, ret,
               callConnected>>
lockVars == <<lockAttr, lockHeld>>
frameVars == <<emergency_override, last_arduino_send, last_sent_detections,
               arduino_lock, req, last_update>>
baseVars == <<emergency_override, last_arduino_send, last_sent_detections,
              arduino_lock, req, last_update, active_emergencies, lockAttr,
              lockHeld, pc, data, lock, current_time, active, plan, sent, ret,
              callConnected, now>>
restVars == <<baseVars, old_loops, in_hand>>
ioVarsButOld == <<conn, disc, comm_thread, response_thread, rx, io_fault,
                  send_ret>>
ioVars == <<conn, disc, comm_thread, response_thread, rx, io_fault, send_ret,
            old_loops, in_hand>>
vars == <<connected, serial_connection, command_queue, active_emergencies,
          lockAttr, lockHeld, now, pc, data, lock, current_time, active, plan,
          sent, ret, callConnected, emergency_override, last_arduino_send,
          last_sent_detections, arduino_lock, req, last_update,
          conn, disc, comm_thread, response_thread, rx, io_fault, send_ret,
          old_loops, in_hand>>

(***************************************************************************)
(* _calculate_distance_from_camera: the squared distance, in tenth-pixels, *)
(* of the detection's centre to the camera at (image_width / 2, 0).        *)
(***************************************************************************)
\* A distance measured from the top left corner of the image.
distance_from_corner(detection) ==
    LET pixels == detection.x10 > 10 \/ detection.y10 > 10
        center_x == IF pixels THEN detection.x10
                              ELSE detection.x10 * image_width
        center_y == IF pixels THEN detection.y10
                              ELSE detection.y10 * image_height
    IN  center_x * center_x + center_y * center_y

calculate_distance_from_camera(detection) ==
    LET pixels == detection.x10 > 10 \/ detection.y10 > 10
        center_x == IF pixels THEN detection.x10
                              ELSE detection.x10 * image_width
        center_y == IF pixels THEN detection.y10
                              ELSE detection.y10 * image_height
        camera_x == (image_width * 10) \div 2
        camera_y == 0
    IN  (center_x - camera_x) * (center_x - camera_x)
          + (center_y - camera_y) * (center_y - camera_y)

(***************************************************************************)
(* The active-emergency table: a dict, modelled as the sequence of its     *)
(* items in insertion order.                                               *)
(***************************************************************************)
HasKey(table, road_id) == \E i \in 1..Len(table) : table[i].id = road_id

KeysOf(table) == { table[i].id : i \in 1..Len(table) }

\* table[road_id] = record: an existing key keeps its place, a new one is last.
SetItem(table, record) ==
    IF HasKey(table, record.id)
    THEN [i \in 1..Len(table) |->
             IF table[i].id = record.id THEN record ELSE table[i]]
    ELSE Append(table, record)

\* del table[road_id]
DelItem(table, road_id) == SelectSeq(table, LAMBDA r : r.id # road_id)

\* The first detection of an emergency class (0: none), lines 197-209.
RECURSIVE find_emergency_vehicle(_, _)
find_emergency_vehicle(detections, i) ==
    IF i > Len(detections) THEN 0
    ELSE IF is_emergency_class(detections[i].class) THEN i
    ELSE find_emergency_vehicle(detections, i + 1)

\* An update that never deletes a record.
update_never_clears(table, road, t0) ==
    IF road.hasEmergencyVehicle /\ find_emergency_vehicle(road.detections, 1) # 0
    THEN SetItem(table,
                 [id |-> road.id, timestamp |-> t0,
                  distance |->
                    calculate_distance_from_camera(
                       road.detections[find_emergency_vehicle(road.detections, 1)])])
    ELSE table

\* One iteration of the loop of lines 190-227.
update_emergency_state(table, road, t0) ==
    IF road.hasEmergencyVehicle
    THEN LET k == find_emergency_vehicle(road.detections, 1)
         IN  IF k # 0
             THEN SetItem(table,
                          [id |-> road.id, timestamp |-> t0,
                           distance |->
                             calculate_distance_from_camera(road.detections[k])])
             ELSE table
    ELSE DelItem(table, road.id)

RECURSIVE update_all(_, _, _, _)
update_all(table, batch, i, t0) ==
    IF i > Len(batch) THEN table
    ELSE update_all(update_emergency_state(table, batch[i], t0), batch, i + 1, t0)

(***************************************************************************)
(* Arbitration.                                                            *)
(***************************************************************************)
\* Python compares the key tuples lexicographically.
KeyLess(k1, k2) == k1[1] < k2[1] \/ (k1[1] = k2[1] /\ k1[2] < k2[2])

\* list.sort / sorted: a stable sort, by insertion from the left.  keys[i] is
\* the key of element i; the result is the order of the indices.
RECURSIVE InsertStable(_, _, _)
InsertStable(order, i, keys) ==
    IF order = <<>> THEN <<i>>
    ELSE IF KeyLess(keys[i], keys[order[Len(order)]])
         THEN Append(InsertStable(SubSeq(order, 1, Len(order) - 1), i, keys),
                     order[Len(order)])
         ELSE Append(order, i)

RECURSIVE StableOrder(_, _)
StableOrder(keys, n) ==
    IF n = 0 THEN <<>>
    ELSE InsertStable(StableOrder(keys, n - 1), n, keys)

StableSort(s, keys) ==
    LET order == StableOrder(keys, Len(s))
    IN  [i \in 1..Len(s) |-> s[order[i]]]

BoolInt(b) == IF b THEN 1 ELSE 0

\* The key of line 303: (-int(hasEmergencyVehicle), -len(detections)).
default_key(road) ==
    << - BoolInt(road.hasEmergencyVehicle), - Len(road.detections) >>

\* A sort that forgets the emergency flag.
sorted_by_count_only(batch) ==
    StableSort(batch, [i \in 1..Len(batch) |-> << 0, - Len(batch[i].detections) >>])

sorted_roads(batch) ==
    StableSort(batch, [i \in 1..Len(batch) |-> default_key(batch[i])])

perpendicular_pair == {1, 3}

\* No pair is allowed through together.
never_simultaneously(emergency_lanes) == FALSE

\* _can_emergency_vehicles_cross_simultaneously
can_emergency_vehicles_cross_simultaneously(emergency_lanes) ==
    IF Len(emergency_lanes) # 2 THEN FALSE
    ELSE /\ emergency_lanes[1].id \in perpendicular_pair
         /\ emergency_lanes[2].id \in perpendicular_pair

\* The key of line 404: the score, which is the stored distance.
score_key(emergency_lane) == << emergency_lane.distance, 0 >>

\* _prioritize_emergency_vehicles: the emergency lanes by ascending score.
prioritize_emergency_vehicles(emergency_lanes) ==
    StableSort(emergency_lanes,
               [i \in 1..Len(emergency_lanes) |-> score_key(emergency_lanes[i])])

Call(road, delayed) == [road |-> road, delayed |-> delayed]

\* Lines 237-311: the update_road_data calls of the cycle, in order; delayed
\* marks a call made after time.sleep(0.1).
multiple_emergencies(table) == Len(table) > 1

\* A plan that makes every emergency lane wait, the priority lane too.
dispatch_plan_delays_priority(table, batch) ==
    IF multiple_emergencies(table)
    THEN IF can_emergency_vehicles_cross_simultaneously(table)
         THEN [i \in 1..Len(batch) |-> Call(batch[i], FALSE)]
         ELSE [i \in 1..Len(batch) |->
                  Call(batch[i], batch[i].hasEmergencyVehicle)]
    ELSE LET sorted == sorted_roads(batch)
         IN  [i \in 1..Len(sorted) |-> Call(sorted[i], FALSE)]

dispatch_plan(table, batch) ==
    IF multiple_emergencies(table)
    THEN IF can_emergency_vehicles_cross_simultaneously(table)
         THEN [i \in 1..Len(batch) |-> Call(batch[i], FALSE)]
         ELSE LET priority_lane == prioritize_emergency_vehicles(table)[1].id
              IN  [i \in 1..Len(batch) |->
                      Call(batch[i],
                           /\ batch[i].hasEmergencyVehicle
                           /\ batch[i].id # priority_lane)]
    ELSE LET sorted == sorted_roads(batch)
         IN  [i \in 1..Len(sorted) |-> Call(sorted[i], FALSE)]

\* Lines 313-322.
is_expired(record, t) == t - record.timestamp > ExpirySeconds

cleanup_expired(table, t) == SelectSeq(table, LAMBDA r : ~ is_expired(r, t))

\* update_road_data's command: UPDATE:<road_id>:<vehicle_count>:<true|false>.
UpdateCommand(road_id, vehicle_count, has_emergency) ==
    [cmd |-> "UPDATE", road_id |-> road_id, vehicle_count |-> vehicle_count,
     has_emergency |-> has_emergency]

\* _last_sent_detections.get(road_id, None): nothing stored yet.
NoDetections == [known |-> FALSE, detections |-> <<>>]

NoUpdate == [sent |-> FALSE, at |-> 0, vehicle_count |-> 0]

\* No connect() call in progress.  called: time of the call; wake: end of the
\* current sleep; buffer_has_marker: the bytes of the unfinished line contain
\* "Arduino Initialized"; started: the call has started the loops; how: the
\* way the call ended.
IdleConnect ==
    [pc |-> "idle", called |-> 0, wake |-> 0, start_time |-> 0,
     buffer_has_marker |-> FALSE, found_init |-> FALSE, started |-> FALSE,
     ret |-> "none", how |-> "none"]

\* No disconnect() call in progress.  called: time of the call; conn_phase:
\* where the connect() call was when disconnect() was called.
IdleDisconnect ==
    [pc |-> "idle", called |-> 0, wake |-> 0, conn_phase |-> "idle",
     raised |-> FALSE]

\* A request coroutine that is not running.
IdleRequest ==
    [pc |-> "idle", kind |-> "none", road_id |-> 0, detections |-> <<>>,
     branch |-> "none", idx |-> 0, now_time |-> 0, need_clear |-> FALSE,
     override_at_begin |-> FALSE, outcome |-> "none", sent |-> <<>>,
     last_send |-> 0, prev_count |-> 0, failed |-> 0]

(***************************************************************************)
(* Initial state: the module has been imported, nothing has run.           *)
(***************************************************************************)
Init ==
    /\ connected = FALSE
    /\ serial_connection = "none"
    /\ command_queue = <<>>
    /\ active_emergencies = <<>>
    /\ lockAttr = NoLock
    /\ lockHeld = {}
    /\ now = Epoch
    /\ pc = [t \in Threads |-> "idle"]
    /\ data = [t \in Threads |-> <<>>]
    /\ lock = [t \in Threads |-> NoLock]
    /\ current_time = [t \in Threads |-> 0]
    /\ active = [t \in Threads |-> <<>>]
    /\ plan = [t \in Threads |-> <<>>]
    /\ sent = [t \in Threads |-> <<>>]
    /\ ret = [t \in Threads |-> "none"]
    /\ callConnected = [t \in Threads |-> FALSE]
    /\ emergency_override = [active |-> FALSE, lanes |-> <<>>]
    /\ last_arduino_send = [l \in Lanes |-> 0]
    /\ last_sent_detections = [l \in Lanes |-> NoDetections]
    /\ arduino_lock = [holder |-> 0, waiters |-> <<>>]
    /\ req = [r \in Threads |-> IdleRequest]
    /\ last_update = [l \in Lanes |-> NoUpdate]
    /\ conn = IdleConnect
    /\ disc = IdleDisconnect
    /\ comm_thread = "none"
    /\ response_thread = "none"
    /\ rx = <<>>
    /\ io_fault = FALSE
    /\ send_ret = "none"
    /\ old_loops = 0
    /\ in_hand = << >>

(***************************************************************************)
(* The device link, as far as the dispatch cycle uses it.                  *)
(***************************************************************************)
\* The model starts an operation that enqueues only while the backlog of the
\* outbound queue is within MaxBacklog.
BacklogOk == Len(command_queue) <= MaxBacklog

\* connect(), lines 19-61, with a device that answers the handshake.
connect ==
    /\ ~ connected
    /\ BacklogOk
    /\ serial_connection' = "open"
    /\ connected' = TRUE
    /\ command_queue' = Append(command_queue, [cmd |-> "STATUS"])
    /\ UNCHANGED <<ioVars, frameVars, active_emergencies, lockVars, now, cycleVars>>

\* disconnect(), lines 72-80.
disconnect ==
    /\ BacklogOk
    /\ connected' = FALSE
    /\ IF serial_connection # "none"
       THEN /\ command_queue' = Append(command_queue, [cmd |-> "STOP"])
            /\ serial_connection' = "closed"
       ELSE UNCHANGED <<command_queue, serial_connection>>
    /\ UNCHANGED <<ioVars, frameVars, active_emergencies, lockVars, now, cycleVars>>

\* One iteration of _communication_loop that finds a command, lines 119-125.
communication_loop ==
    /\ connected
    /\ serial_connection = "open"
    /\ command_queue # <<>>
    /\ command_queue' = Tail(command_queue)
    /\ UNCHANGED <<ioVars, frameVars, connected, serial_connection, active_emergencies, lockVars,
                   now, cycleVars>>

\* update_road_data, lines 94-103: the queue after the call and its result.
update_road_data_ok == connected

update_road_data_queue(road_id, vehicle_count, has_emergency) ==
    IF update_road_data_ok
    THEN Append(command_queue,
                UpdateCommand(road_id, vehicle_count, has_emergency))
    ELSE command_queue

(***************************************************************************)
(* send_traffic_data, thread t.                                            *)
(***************************************************************************)
BodyPcs == {"update", "arbitrate", "emit", "cleanup", "release"}

\* Thread t enters send_traffic_data(batch) with fresh locals.
StartCycle(t, batch) ==
    /\ data' = [data EXCEPT ![t] = batch]
    /\ callConnected' = [callConnected EXCEPT ![t] = connected]
    /\ pc' = [pc EXCEPT ![t] = "hasattr"]
    /\ lock' = [lock EXCEPT ![t] = NoLock]
    /\ current_time' = [current_time EXCEPT ![t] = 0]
    /\ active' = [active EXCEPT ![t] = <<>>]
    /\ plan' = [plan EXCEPT ![t] = <<>>]
    /\ sent' = [sent EXCEPT ![t] = <<>>]
    /\ ret' = [ret EXCEPT ![t] = "none"]

\* The call: data is bound.
send_traffic_data_call(t, batches) ==
    /\ pc[t] = "idle"
    /\ BacklogOk
    /\ \E batch \in batches : StartCycle(t, batch)
    /\ UNCHANGED <<ioVars, frameVars, linkVars, active_emergencies, lockVars, now>>

\* Line 178: if not hasattr(send_traffic_data, "_lock").
send_traffic_data_hasattr(t) ==
    /\ pc[t] = "hasattr"
    /\ pc' = [pc EXCEPT ![t] = IF lockAttr = NoLock THEN "mklock" ELSE "getlock"]
    /\ UNCHANGED <<ioVars, frameVars, linkVars, active_emergencies, lockVars, now, data, lock,
                   current_time, active, plan, sent, ret, callConnected>>

\* Lines 179-180: send_traffic_data._lock = Lock(), a new lock object (named
\* after the thread that made it), not held.
send_traffic_data_mklock(t) ==
    /\ pc[t] = "mklock"
    /\ lockAttr' = t
    /\ pc' = [pc EXCEPT ![t] = "getlock"]
    /\ UNCHANGED <<ioVars, frameVars, linkVars, active_emergencies, lockHeld, now, data, lock,
                   current_time, active, plan, sent, ret, callConnected>>

\* Line 181: lock = send_traffic_data._lock.
send_traffic_data_getlock(t) ==
    /\ pc[t] = "getlock"
    /\ lock' = [lock EXCEPT ![t] = lockAttr]
    /\ pc' = [pc EXCEPT ![t] = "acquire"]
    /\ UNCHANGED <<ioVars, frameVars, linkVars, active_emergencies, lockVars, now, data,
                   current_time, active, plan, sent, ret, callConnected>>

\* A blocking acquire: lock.acquire() waits until the lock is free.
acquire_blocking(t) ==
    /\ pc[t] = "acquire"
    /\ lock[t] \notin lockHeld
    /\ lockHeld' = lockHeld \cup {lock[t]}
    /\ current_time' = [current_time EXCEPT ![t] = now]
    /\ pc' = [pc EXCEPT ![t] = "update"]
    /\ UNCHANGED <<ioVars, frameVars, linkVars, active_emergencies, lockAttr, now, data, lock,
                   active, plan, sent, ret, callConnected>>

\* Lines 183-187: lock.acquire(blocking=False); on failure return False.
send_traffic_data_acquire(t) ==
    /\ pc[t] = "acquire"
    /\ IF lock[t] \notin lockHeld
       THEN /\ lockHeld' = lockHeld \cup {lock[t]}
            /\ current_time' = [current_time EXCEPT ![t] = now]
            /\ pc' = [pc EXCEPT ![t] = "update"]
            /\ UNCHANGED ret
       ELSE /\ ret' = [ret EXCEPT ![t] = "False"]
            /\ pc' = [pc EXCEPT ![t] = "done"]
            /\ UNCHANGED <<lockHeld, current_time>>
    /\ UNCHANGED <<ioVars, frameVars, linkVars, active_emergencies, lockAttr, now, data, lock,
                   active, plan, sent, callConnected>>

\* Lines 190-227: the emergency table is brought up to date with the batch.
send_traffic_data_update(t) ==
    /\ pc[t] = "update"
    /\ active_emergencies' =
          update_all(active_emergencies, data[t], 1, current_time[t])
    /\ pc' = [pc EXCEPT ![t] = "arbitrate"]
    /\ UNCHANGED <<ioVars, frameVars, linkVars, lockVars, now, data, lock, current_time, active,
                   plan, sent, ret, callConnected>>

\* Lines 230-311 up to the first update_road_data call: the table is read and
\* the branch and the order of the calls are decided.
send_traffic_data_arbitrate(t) ==
    /\ pc[t] = "arbitrate"
    /\ active' = [active EXCEPT ![t] = active_emergencies]
    /\ plan' = [plan EXCEPT ![t] = dispatch_plan(active_emergencies, data[t])]
    /\ pc' = [pc EXCEPT ![t] = "emit"]
    /\ UNCHANGED <<ioVars, frameVars, linkVars, active_emergencies, lockVars, now, data, lock,
                   current_time, sent, ret, callConnected>>

\* An emission loop that gives up at the first update_road_data that fails.
send_traffic_data_emit_until_failure(t) ==
    /\ pc[t] = "emit"
    /\ IF plan[t] = <<>>
       THEN /\ pc' = [pc EXCEPT ![t] = "cleanup"]
            /\ UNCHANGED <<command_queue, plan, sent>>
       ELSE LET c == Head(plan[t])
                n == Len(c.road.detections)
            IN  /\ command_queue' =
                      update_road_data_queue(c.road.id, n,
                                             c.road.hasEmergencyVehicle)
                /\ sent' = [sent EXCEPT ![t] =
                      Append(@, [road_id |-> c.road.id, vehicle_count |-> n,
                                 has_emergency |-> c.road.hasEmergencyVehicle,
                                 delayed |-> c.delayed,
                                 ok |-> update_road_data_ok, at |-> now])]
                /\ plan' = [plan EXCEPT ![t] =
                                IF update_road_data_ok THEN Tail(@) ELSE <<>>]
                /\ UNCHANGED pc
    /\ UNCHANGED <<ioVars, frameVars, connected, serial_connection, active_emergencies, lockVars,
                   now, data, lock, current_time, active, ret, callConnected>>

\* One update_road_data call of the loops of lines 264-311.
send_traffic_data_emit(t) ==
    /\ pc[t] = "emit"
    /\ IF plan[t] = <<>>
       THEN /\ pc' = [pc EXCEPT ![t] = "cleanup"]
            /\ UNCHANGED <<command_queue, plan, sent>>
       ELSE LET c == Head(plan[t])
                n == Len(c.road.detections)
            IN  /\ command_queue' =
                      update_road_data_queue(c.road.id, n,
                                             c.road.hasEmergencyVehicle)
                /\ sent' = [sent EXCEPT ![t] =
                      Append(@, [road_id |-> c.road.id, vehicle_count |-> n,
                                 has_emergency |-> c.road.hasEmergencyVehicle,
                                 delayed |-> c.delayed,
                                 ok |-> update_road_data_ok, at |-> now])]
                /\ plan' = [plan EXCEPT ![t] = Tail(@)]
                /\ UNCHANGED pc
    /\ UNCHANGED <<ioVars, frameVars, connected, serial_connection, active_emergencies, lockVars,
                   now, data, lock, current_time, active, ret, callConnected>>

\* Lines 313-324: expired records are dropped, against a fresh time.time().
send_traffic_data_cleanup(t) ==
    /\ pc[t] = "cleanup"
    /\ active_emergencies' = cleanup_expired(active_emergencies, now)
    /\ ret' = [ret EXCEPT ![t] = "True"]
    /\ pc' = [pc EXCEPT ![t] = "release"]
    /\ UNCHANGED <<ioVars, frameVars, linkVars, lockVars, now, data, lock, current_time, active,
                   plan, sent, callConnected>>

\* Lines 325-326: finally lock.release().
send_traffic_data_release(t) ==
    /\ pc[t] = "release"
    /\ lockHeld' = lockHeld \ {lock[t]}
    /\ pc' = [pc EXCEPT ![t] = "done"]
    /\ UNCHANGED <<ioVars, frameVars, linkVars, active_emergencies, lockAttr, now, data, lock,
                   current_time, active, plan, sent, ret, callConnected>>

\* Thread t is out of send_traffic_data; the locals are gone.
EndCycle(t) ==
    /\ pc' = [pc EXCEPT ![t] = "idle"]
    /\ data' = [data EXCEPT ![t] = <<>>]
    /\ lock' = [lock EXCEPT ![t] = NoLock]
    /\ current_time' = [current_time EXCEPT ![t] = 0]
    /\ active' = [active EXCEPT ![t] = <<>>]
    /\ plan' = [plan EXCEPT ![t] = <<>>]
    /\ sent' = [sent EXCEPT ![t] = <<>>]
    /\ ret' = [ret EXCEPT ![t] = "none"]
    /\ callConnected' = [callConnected EXCEPT ![t] = FALSE]

\* A direct caller (/arduino/update_traffic) has the result.
send_traffic_data_return(t) ==
    /\ pc[t] = "done"
    /\ req[t].pc # "await"
    /\ EndCycle(t)
    /\ UNCHANGED <<ioVars, frameVars, linkVars, active_emergencies, lockVars, now>>

send_traffic_data_run(t) ==
    \/ send_traffic_data_hasattr(t)
    \/ send_traffic_data_mklock(t)
    \/ send_traffic_data_getlock(t)
    \/ send_traffic_data_acquire(t)
    \/ send_traffic_data_update(t)
    \/ send_traffic_data_arbitrate(t)
    \/ send_traffic_data_emit(t)
    \/ send_traffic_data_cleanup(t)
    \/ send_traffic_data_release(t)

send_traffic_data_step(t) ==
    \/ send_traffic_data_run(t)
    \/ send_traffic_data_return(t)

\* The clock advances by d seconds.
Tick(d, limit) ==
    /\ now + d <= Epoch + limit
    /\ now' = now + d
    /\ UNCHANGED <<ioVars, frameVars, linkVars, active_emergencies, lockVars, cycleVars>>

(***************************************************************************)
(* Spec: two threads may be in send_traffic_data at once (the event-loop   *)
(* thread through /arduino/update_traffic, a pool thread through the       *)
(* detection endpoints), each with a batch of one lane.                    *)
(***************************************************************************)
ConcRoads ==
    { Road(id, d, has_emergency_of(d)) : id \in 1..2, d \in {<<>>, <<EmergencyNear>>} }

ConcBatches == { <<r>> : r \in ConcRoads }

Next ==
    \/ \E t \in Threads : send_traffic_data_call(t, ConcBatches)
    \/ \E t \in Threads : send_traffic_data_step(t)
    \/ connect
    \/ disconnect
    \/ communication_loop

Spec == Init /\ [][Next]_vars

(***************************************************************************)
(* SpecCycle: one caller at a time, batches of up to MaxBatch lanes as the *)
(* detection endpoints build them, within one clock reading.               *)
(***************************************************************************)
CycleBatches == SeqsUpTo(DerivedRoads, MaxBatch)

NextCycle ==
    \/ send_traffic_data_call(1, CycleBatches)
    \/ send_traffic_data_step(1)
    \/ connect
    \/ disconnect
    \/ communication_loop

SpecCycle == Init /\ [][NextCycle]_vars

(***************************************************************************)
(* SpecExpiry: one caller at a time, batches as                           *)
(* /arduino/update_traffic forwards them, and a clock that advances.       *)
(***************************************************************************)
ExpiryBatches == SeqsUpTo(RawRoads, MaxBatch)

TickSteps == {ExpirySeconds, ExpirySeconds + 1}

NextExpiry ==
    \/ send_traffic_data_call(1, ExpiryBatches)
    \/ send_traffic_data_step(1)
    \/ \E d \in TickSteps : Tick(d, MaxElapsed)
    \/ connect

SpecExpiry == Init /\ [][NextExpiry]_vars


(***************************************************************************)
(* main.py: detect_frame and websocket_detect, from the point where the    *)
(* detections are known.  A coroutine runs without interruption up to its  *)
(* next suspension: waiting for arduino_lock, or awaiting the pool thread  *)
(* that runs send_traffic_data.  Request r uses pool thread r.             *)
(***************************************************************************)
MaxFrameElapsed == 2

FrameLanes == 1..2

FrameDetLists == { <<>>, <<Car>>, <<EmergencyNear>> }

InSeq(x, s) == \E i \in 1..Len(s) : s[i] = x

\* Lines 244-254: the override after a frame of road_id.
override_after_frame(ov, road_id, has_emergency) ==
    IF has_emergency
    THEN [active |-> TRUE,
          lanes |-> IF InSeq(road_id, ov.lanes) THEN ov.lanes
                                                ELSE Append(ov.lanes, road_id)]
    ELSE IF InSeq(road_id, ov.lanes)
         THEN LET left == SelectSeq(ov.lanes, LAMBDA l : l # road_id)
              IN  [active |-> IF left = <<>> THEN FALSE ELSE ov.active,
                   lanes |-> left]
         ELSE ov

\* Line 269: the lane has no detections now and had some at its last send.
just_cleared(road_id, detections) ==
    /\ Len(detections) = 0
    /\ last_sent_detections[road_id].known
    /\ Len(last_sent_detections[road_id].detections) > 0

\* Line 299: the throttle lets the frame through.
throttle_open(road_id, now_time) ==
    now_time - last_arduino_send[road_id] >= ThrottleSeconds

\* A branch decision that knows the throttle only.
frame_branch_throttle_only(ov, road_id, detections, now_time) ==
    IF just_cleared(road_id, detections)
    THEN "clear"
    ELSE IF throttle_open(road_id, now_time) THEN "normal" ELSE "throttled"

\* Lines 268-322: which branch a frame takes.
frame_branch(ov, road_id, detections, now_time) ==
    IF just_cleared(road_id, detections)
    THEN IF ov.active THEN "clear_override" ELSE "clear"
    ELSE IF ov.active \/ throttle_open(road_id, now_time)
         THEN IF ov.active THEN "override" ELSE "normal"
         ELSE "throttled"

ClearBranches == {"clear", "clear_override"}
LoopBranches == {"clear_override", "override"}

\* The batch a request hands to send_traffic_data.
road_data(q) ==
    IF q.branch \in ClearBranches
    THEN << Road(q.road_id, <<>>, FALSE) >>
    ELSE << Road(q.road_id, q.detections, has_emergency_of(q.detections)) >>

\* The loop "for lane in emergency_override['lanes']" reads the live list.
HasIteration(q, ov) ==
    IF q.branch \in LoopBranches THEN q.idx <= Len(ov.lanes) ELSE q.idx = 1

RemainingIterations(q, ov) ==
    IF q.branch \in LoopBranches THEN Len(ov.lanes) - q.idx + 1 ELSE 1

\* Lines 296-297 and 319-320: what detect_frame remembers of the send.
FinishRequest(r, q) ==
    /\ req' = [req EXCEPT ![r] = [q EXCEPT !.pc = "finished"]]
    /\ IF q.kind = "frame"
       THEN /\ last_sent_detections' =
                 [last_sent_detections EXCEPT ![q.road_id] =
                     [known |-> TRUE,
                      detections |-> IF q.branch \in ClearBranches
                                     THEN <<>> ELSE q.detections]]
            /\ last_arduino_send' =
                 [last_arduino_send EXCEPT ![q.road_id] = q.now_time]
       ELSE UNCHANGED <<last_sent_detections, last_arduino_send>>

\* Request r, in state q, goes on from the head of its loop (granted: woken
\* up holding arduino_lock, inside an iteration) to its next suspension.
Proceed(r, q, ov, lk, granted) ==
    IF ~ granted /\ ~ HasIteration(q, ov)
    THEN /\ FinishRequest(r, q)
         /\ arduino_lock' = lk
         /\ EndCycle(r)
    ELSE IF ~ granted /\ (lk.holder # 0 \/ lk.waiters # <<>>)
    THEN \* async with arduino_lock: wait in line
         /\ req' = [req EXCEPT ![r] = [q EXCEPT !.pc = "wait_lock"]]
         /\ arduino_lock' = [lk EXCEPT !.waiters = Append(@, r)]
         /\ EndCycle(r)
         /\ UNCHANGED <<last_sent_detections, last_arduino_send>>
    ELSE IF connected
    THEN \* run_in_executor(None, send_traffic_data, ...)
         /\ req' = [req EXCEPT ![r] = [q EXCEPT !.pc = "await"]]
         /\ arduino_lock' = [lk EXCEPT !.holder = r]
         /\ StartCycle(r, road_data(q))
         /\ UNCHANGED <<last_sent_detections, last_arduino_send>>
    ELSE \* not connected: the iteration does nothing, the lock is released
         LET q1 == [q EXCEPT !.idx = @ + 1, !.failed = @ + 1]
         IN  IF lk.waiters = <<>> \/ ~ HasIteration(q1, ov)
             THEN /\ FinishRequest(r,
                        [q EXCEPT !.idx = @ + RemainingIterations(q, ov),
                                  !.failed = @ + RemainingIterations(q, ov)])
                  /\ arduino_lock' = lk
                  /\ EndCycle(r)
             ELSE /\ req' = [req EXCEPT ![r] = [q1 EXCEPT !.pc = "wait_lock"]]
                  /\ arduino_lock' = [lk EXCEPT !.waiters = Append(@, r)]
                  /\ EndCycle(r)
                  /\ UNCHANGED <<last_sent_detections, last_arduino_send>>

\* detect_frame, lines 234-322, up to its first suspension, for a frame of
\* one of the lanes with one of the detection lists.
detect_frame_from(r, lanes, detlists) ==
    /\ req[r].pc = "idle"
    /\ pc[r] = "idle"
    /\ BacklogOk
    /\ \E road_id \in lanes, detections \in detlists :
          LET has_emergency == has_emergency_of(detections)
              ov == override_after_frame(emergency_override, road_id,
                                         has_emergency)
              q == [IdleRequest EXCEPT
                      !.kind = "frame", !.road_id = road_id,
                      !.detections = detections, !.idx = 1, !.now_time = now,
                      !.last_send = last_arduino_send[road_id],
                      !.prev_count = last_update[road_id].vehicle_count,
                      !.need_clear = just_cleared(road_id, detections),
                      !.override_at_begin = ov.active,
                      !.branch = frame_branch(ov, road_id, detections, now)]
          IN  /\ emergency_override' = ov
              /\ IF ov.active /\ ~ InSeq(road_id, ov.lanes)
                 THEN \* line 256: not an emergency lane, skip
                      /\ req' = [req EXCEPT ![r] =
                            [q EXCEPT !.pc = "finished", !.branch = "none",
                                      !.outcome = "override_skip"]]
                      /\ UNCHANGED <<last_sent_detections, last_arduino_send,
                                     arduino_lock, cycleVars>>
                 ELSE IF q.branch = "throttled"
                 THEN \* line 322
                      /\ req' = [req EXCEPT ![r] =
                            [q EXCEPT !.pc = "finished",
                                      !.outcome = "throttled"]]
                      /\ UNCHANGED <<last_sent_detections, last_arduino_send,
                                     arduino_lock, cycleVars>>
                 ELSE Proceed(r, [q EXCEPT !.outcome = "dispatch"], ov,
                              arduino_lock, FALSE)
    /\ UNCHANGED <<ioVars, linkVars, active_emergencies, lockVars, now, last_update>>

detect_frame_begin(r) == detect_frame_from(r, FrameLanes, FrameDetLists)

\* websocket_detect, lines 703-714: every frame is handed on.
websocket_detect_begin(r) ==
    /\ req[r].pc = "idle"
    /\ pc[r] = "idle"
    /\ BacklogOk
    /\ \E road_id \in FrameLanes, detections \in FrameDetLists :
          Proceed(r, [IdleRequest EXCEPT
                        !.kind = "ws", !.road_id = road_id, !.branch = "ws",
                        !.detections = detections, !.idx = 1, !.now_time = now,
                        !.outcome = "dispatch"],
                  emergency_override, arduino_lock, FALSE)
    /\ UNCHANGED <<ioVars, linkVars, active_emergencies, lockVars, now, last_update,
                   emergency_override>>

\* A request waiting for arduino_lock gets it.
request_wake(r) ==
    /\ req[r].pc = "wait_lock"
    /\ arduino_lock.holder = 0
    /\ arduino_lock.waiters # <<>>
    /\ Head(arduino_lock.waiters) = r
    /\ Proceed(r, req[r], emergency_override,
               [arduino_lock EXCEPT !.waiters = Tail(@)], TRUE)
    /\ UNCHANGED <<ioVars, linkVars, active_emergencies, lockVars, now, last_update,
                   emergency_override>>

OkUpdates(t) == SelectSeq(sent[t], LAMBDA u : u.ok)

\* The pool thread is back: the request leaves "async with arduino_lock" and
\* goes on.
request_resume(r) ==
    /\ req[r].pc = "await"
    /\ pc[r] = "done"
    /\ LET ok == OkUpdates(r)
           q == [req[r] EXCEPT
                   !.idx = @ + 1,
                   !.sent = @ \o [i \in 1..Len(ok) |->
                                    <<ok[i].road_id, ok[i].vehicle_count,
                                      ok[i].has_emergency>>],
                   !.failed = @ + (IF Len(ok) < Len(data[r]) THEN 1 ELSE 0)]
       IN  /\ last_update' =
                [l \in Lanes |->
                    IF \E i \in 1..Len(ok) : ok[i].road_id = l
                    THEN LET u == ok[CHOOSE i \in 1..Len(ok) :
                                       /\ ok[i].road_id = l
                                       /\ \A j \in (i + 1)..Len(ok) :
                                             ok[j].road_id # l]
                         IN  [sent |-> TRUE, at |-> u.at,
                              vehicle_count |-> u.vehicle_count]
                    ELSE last_update[l]]
           /\ Proceed(r, q, emergency_override,
                      [arduino_lock EXCEPT !.holder = 0], FALSE)
    /\ UNCHANGED <<ioVars, linkVars, active_emergencies, lockVars, now,
                   emergency_override>>

\* The response is out.
request_return(r) ==
    /\ req[r].pc = "finished"
    /\ req' = [req EXCEPT ![r] = IdleRequest]
    /\ UNCHANGED <<ioVars, linkVars, active_emergencies, lockVars, now, cycleVars,
                   emergency_override, last_arduino_send, last_sent_detections,
                   arduino_lock, last_update>>

(***************************************************************************)
(* SpecFrame: frames arrive at detect_frame and at the WebSocket endpoint, *)
(* one request at a time, and the clock advances in seconds.               *)
(***************************************************************************)
NextFrame ==
    \/ detect_frame_begin(1)
    \/ websocket_detect_begin(1)
    \/ request_resume(1)
    \/ request_return(1)
    \/ send_traffic_data_run(1)
    \/ Tick(1, MaxFrameElapsed)
    \/ connect
    \/ disconnect
    \/ communication_loop

SpecFrame == Init /\ [][NextFrame]_vars

(***************************************************************************)
(* The device link in detail: ArduinoController.connect, disconnect, the   *)
(* sends and the two loops, statement by statement.  A connect() call, a   *)
(* disconnect() call, the loops and the device run concurrently.  Steps    *)
(* take no time; time passes only while every thread sleeps or waits.  The *)
(* device sends bytes in three kinds: the text "Arduino Initialized", any  *)
(* other text, and the newline.                                            *)
(***************************************************************************)
MaxLinkElapsed == 11
MaxRx == 1
MaxQueue == 1
MaxOldLoops == 1

SettleSeconds == 2
HandshakeSeconds == 8
StatusDelaySeconds == 1
StopFlushSeconds == 1

Bytes == {"marker", "text", "newline"}

\* An operation on self.serial_connection raises: no channel, a closed one, or
\* a failing one.
channel_raises == serial_connection # "open" \/ io_fault

\* serial_connection.close(): raises on a failing open channel, closes
\* otherwise.
close_raises == serial_connection = "open" /\ io_fault

after_close == IF close_raises THEN serial_connection ELSE "closed"

\* Callers are admitted while the outbound queue is short.
QueueOk == Len(command_queue) < MaxQueue

\* connect() is called.  (The model admits the call while the writer loops
\* it may leave behind stay within MaxOldLoops.)
connect_call ==
    /\ conn.pc = "idle"
    /\ QueueOk
    /\ comm_thread = "running" => old_loops < MaxOldLoops
    /\ conn' = [IdleConnect EXCEPT !.pc = "open", !.called = now]
    /\ UNCHANGED <<restVars, linkVars, disc, comm_thread, response_thread, rx, io_fault,
                   send_ret>>

\* Lines 63-70: the except clause of connect().
connect_except ==
    /\ connected' = FALSE
    /\ serial_connection' =
          IF serial_connection = "none" THEN "none" ELSE after_close
    /\ conn' = [conn EXCEPT !.pc = "returned", !.ret = "False", !.how = "error"]

\* Lines 21-24: serial.Serial(...) opens a new channel, or raises.
connect_open ==
    /\ conn.pc = "open"
    /\ \E opened \in BOOLEAN :
          IF opened
          THEN /\ serial_connection' = "open"
               /\ rx' = <<>>
               /\ io_fault' = FALSE
               /\ conn' = [conn EXCEPT !.pc = "settle",
                                       !.wake = now + SettleSeconds]
               /\ UNCHANGED connected
          ELSE /\ connect_except
               /\ UNCHANGED <<restVars, rx, io_fault>>
    /\ UNCHANGED <<restVars, command_queue, disc, comm_thread, response_thread, send_ret>>

\* Lines 24-28: the settle sleep is over, the handshake starts.
connect_settled ==
    /\ conn.pc = "settle"
    /\ now >= conn.wake
    /\ conn' = [conn EXCEPT !.pc = "handshake", !.start_time = now,
                            !.buffer_has_marker = FALSE, !.found_init = FALSE]
    /\ UNCHANGED <<restVars, linkVars, disc, comm_thread, response_thread, rx, io_fault,
                   send_ret>>

\* Line 29: while time.time() - start_time < 8.
handshake_open == now - conn.start_time < HandshakeSeconds

\* Lines 30-39: one byte is waiting and is read.
connect_read ==
    /\ conn.pc = "handshake"
    /\ handshake_open
    /\ ~ channel_raises
    /\ rx # <<>>
    /\ rx' = Tail(rx)
    /\ conn' =
          IF Head(rx) = "newline"
          THEN IF conn.buffer_has_marker
               THEN [conn EXCEPT !.found_init = TRUE, !.pc = "found",
                                 !.buffer_has_marker = FALSE]
               ELSE [conn EXCEPT !.buffer_has_marker = FALSE]
          ELSE [conn EXCEPT !.buffer_has_marker = @ \/ Head(rx) = "marker"]
    /\ UNCHANGED <<restVars, linkVars, disc, comm_thread, response_thread, io_fault,
                   send_ret>>

\* Lines 30-31: in_waiting or read raises.
connect_io_error ==
    /\ conn.pc = "handshake"
    /\ handshake_open
    /\ channel_raises
    /\ connect_except
    /\ UNCHANGED <<restVars, command_queue, disc, comm_thread, response_thread, rx,
                   io_fault, send_ret>>

\* A timeout that leaves the channel open.
connect_timeout_leaves_open ==
    /\ conn.pc = "handshake"
    /\ ~ handshake_open
    /\ connected' = FALSE
    /\ conn' = [conn EXCEPT !.pc = "returned", !.ret = "False",
                            !.how = "timeout"]
    /\ UNCHANGED <<restVars, serial_connection, command_queue, disc, comm_thread,
                   response_thread, rx, io_fault, send_ret>>

\* Lines 40-43: the handshake timed out.
connect_timeout ==
    /\ conn.pc = "handshake"
    /\ ~ handshake_open
    /\ IF channel_raises /\ serial_connection # "closed"
       THEN connect_except
       ELSE /\ serial_connection' = "closed"
            /\ connected' = FALSE
            /\ conn' = [conn EXCEPT !.pc = "returned", !.ret = "False",
                                    !.how = "timeout"]
    /\ UNCHANGED <<restVars, command_queue, disc, comm_thread, response_thread, rx,
                   io_fault, send_ret>>

\* Line 45: self.connected = True.
connect_mark ==
    /\ conn.pc = "found"
    /\ connected' = TRUE
    /\ conn' = [conn EXCEPT !.pc = "start"]
    /\ UNCHANGED <<restVars, serial_connection, command_queue, disc, comm_thread,
                   response_thread, rx, io_fault, send_ret>>

\* Lines 47-59: both loops are started, then connect() sleeps.  self.comm_thread
\* now names the new thread; a loop that was running goes on running.
connect_start_threads ==
    /\ conn.pc = "start"
    /\ comm_thread' = "running"
    /\ old_loops' = IF comm_thread = "running" THEN old_loops + 1 ELSE old_loops
    /\ response_thread' = "running"
    /\ conn' = [conn EXCEPT !.pc = "sleep", !.started = TRUE,
                            !.wake = now + StatusDelaySeconds]
    /\ UNCHANGED <<baseVars, in_hand, linkVars, disc, rx, io_fault, send_ret>>

\* Lines 60-61: STATUS is enqueued and connect() returns True.
connect_put_status ==
    /\ conn.pc = "sleep"
    /\ now >= conn.wake
    /\ command_queue' = Append(command_queue, [cmd |-> "STATUS"])
    /\ conn' = [conn EXCEPT !.pc = "returned", !.ret = "True", !.how = "ok"]
    /\ UNCHANGED <<restVars, connected, serial_connection, disc, comm_thread,
                   response_thread, rx, io_fault, send_ret>>

\* The caller has the result of connect().
connect_return ==
    /\ conn.pc = "returned"
    /\ conn' = IdleConnect
    /\ UNCHANGED <<restVars, linkVars, disc, comm_thread, response_thread, rx, io_fault,
                   send_ret>>

connect_step ==
    \/ connect_open
    \/ connect_settled
    \/ connect_read
    \/ connect_io_error
    \/ connect_timeout
    \/ connect_mark
    \/ connect_start_threads
    \/ connect_put_status

\* Line 73: disconnect() is called and clears connected.
disconnect_call ==
    /\ disc.pc = "idle"
    /\ QueueOk
    /\ connected' = FALSE
    /\ disc' = [IdleDisconnect EXCEPT !.pc = "check", !.called = now,
                                      !.conn_phase = conn.pc]
    /\ UNCHANGED <<restVars, serial_connection, command_queue, conn,
                   comm_thread, response_thread, rx, io_fault, send_ret>>

\* Lines 74-77: with a channel, STOP is enqueued and disconnect() sleeps.
disconnect_put_stop ==
    /\ disc.pc = "check"
    /\ IF serial_connection # "none"
       THEN /\ command_queue' = Append(command_queue, [cmd |-> "STOP"])
            /\ disc' = [disc EXCEPT !.pc = "sleep",
                                    !.wake = now + StopFlushSeconds]
       ELSE /\ disc' = [disc EXCEPT !.pc = "returned"]
            /\ UNCHANGED command_queue
    /\ UNCHANGED <<restVars, connected, serial_connection, conn, comm_thread,
                   response_thread, rx, io_fault, send_ret>>

\* Lines 78-80: the channel is closed; what close() raises is swallowed.
disconnect_close ==
    /\ disc.pc = "sleep"
    /\ now >= disc.wake
    /\ serial_connection' = after_close
    /\ disc' = [disc EXCEPT !.pc = "returned"]
    /\ UNCHANGED <<restVars, connected, command_queue, conn, comm_thread,
                   response_thread, rx, io_fault, send_ret>>

\* The caller is back from disconnect().
disconnect_return ==
    /\ disc.pc = "returned"
    /\ disc' = IdleDisconnect
    /\ UNCHANGED <<restVars, linkVars, conn, comm_thread, response_thread, rx,
                   io_fault, send_ret>>

disconnect_step ==
    \/ disconnect_put_stop
    \/ disconnect_close

\* A loop that reconnects by itself.
communication_loop_reconnects ==
    /\ comm_thread = "running"
    /\ ~ connected
    /\ connected' = TRUE
    /\ UNCHANGED <<restVars, serial_connection, command_queue, conn, disc,
                   comm_thread, response_thread, rx, io_fault, send_ret>>

\* A loop that ends only once the queue is drained.
communication_loop_exit_drained ==
    /\ comm_thread = "running"
    /\ ~ connected
    /\ command_queue = << >>
    /\ comm_thread' = "ended"
    /\ UNCHANGED <<restVars, linkVars, conn, disc, response_thread, rx,
                   io_fault, send_ret>>

\* Line 119: the loop condition fails, _communication_loop ends.
communication_loop_exit ==
    /\ comm_thread = "running"
    /\ ~ connected
    /\ comm_thread' = "ended"
    /\ UNCHANGED <<restVars, linkVars, conn, disc, response_thread, rx,
                   io_fault, send_ret>>

\* Some writer loop is running.
loop_running == comm_thread = "running" \/ old_loops > 0

\* The writer loops that are running.
running_loops == old_loops + (IF comm_thread = "running" THEN 1 ELSE 0)

\* Lines 121-125: a command is taken from the queue and written.
communication_loop_write ==
    /\ loop_running
    /\ connected
    /\ command_queue # <<>>
    /\ ~ channel_raises
    /\ command_queue' = Tail(command_queue)
    /\ UNCHANGED <<restVars, connected, serial_connection, conn, disc,
                   comm_thread, response_thread, rx, io_fault, send_ret>>

\* Lines 127-135: the waiting bytes are read.
communication_loop_read ==
    /\ loop_running
    /\ connected
    /\ command_queue = <<>>
    /\ ~ channel_raises
    /\ rx # <<>>
    /\ rx' = <<>>
    /\ UNCHANGED <<restVars, linkVars, conn, disc, comm_thread,
                   response_thread, io_fault, send_ret>>

\* A loop that goes on after an exception.
communication_loop_ignores_error ==
    /\ comm_thread = "running"
    /\ connected
    /\ channel_raises
    /\ command_queue # <<>>
    /\ command_queue' = Tail(command_queue)
    /\ UNCHANGED <<restVars, connected, serial_connection, conn, disc,
                   comm_thread, response_thread, rx, io_fault, send_ret>>

\* Lines 138-140: write, flush, in_waiting or read raises; the command taken
\* from the queue, if any, is lost.
communication_loop_error ==
    /\ comm_thread = "running"
    /\ connected
    /\ channel_raises
    /\ connected' = FALSE
    /\ comm_thread' = "failed"
    /\ command_queue' =
          IF command_queue # <<>> THEN Tail(command_queue) ELSE command_queue
    /\ UNCHANGED <<restVars, serial_connection, conn, disc, response_thread,
                   rx, io_fault, send_ret>>

\* Line 119, in a loop of an earlier connect() call.
old_loop_exit ==
    /\ old_loops > 0
    /\ ~ connected
    /\ old_loops' = old_loops - 1
    /\ UNCHANGED <<baseVars, in_hand, linkVars, ioVarsButOld>>

\* Lines 138-140, in a loop of an earlier connect() call.
old_loop_error ==
    /\ old_loops > 0
    /\ connected
    /\ channel_raises
    /\ connected' = FALSE
    /\ old_loops' = old_loops - 1
    /\ command_queue' =
          IF command_queue # <<>> THEN Tail(command_queue) ELSE command_queue
    /\ UNCHANGED <<baseVars, in_hand, serial_connection, ioVarsButOld>>

\* Line 143: _monitor_responses ends when connected is false.
monitor_responses_exit ==
    /\ response_thread = "running"
    /\ ~ connected
    /\ response_thread' = "ended"
    /\ UNCHANGED <<restVars, linkVars, conn, disc, comm_thread, rx, io_fault,
                   send_ret>>

loop_step ==
    \/ communication_loop_exit
    \/ communication_loop_write
    \/ communication_loop_read
    \/ communication_loop_error
    \/ old_loop_exit
    \/ old_loop_error
    \/ monitor_responses_exit

\* A send that does not look at connected.
send_unchecked(command) ==
    /\ QueueOk
    /\ command_queue' = Append(command_queue, command)
    /\ send_ret' = "True"
    /\ UNCHANGED <<restVars, connected, serial_connection, conn, disc,
                   comm_thread, response_thread, rx, io_fault>>

\* Lines 82-103: start_traffic_system, stop_traffic_system, update_road_data.
send(command) ==
    /\ QueueOk
    /\ IF connected
       THEN /\ command_queue' = Append(command_queue, command)
            /\ send_ret' = "True"
       ELSE /\ send_ret' = "False"
            /\ UNCHANGED command_queue
    /\ UNCHANGED <<restVars, connected, serial_connection, conn, disc,
                   comm_thread, response_thread, rx, io_fault>>

start_traffic_system == send([cmd |-> "START"])

stop_traffic_system == send([cmd |-> "STOP"])

update_road_data == send(UpdateCommand(1, 1, FALSE))

\* The device sends a byte.
device_sends ==
    /\ serial_connection = "open"
    /\ Len(rx) < MaxRx
    /\ \E b \in Bytes : rx' = Append(rx, b)
    /\ UNCHANGED <<restVars, linkVars, conn, disc, comm_thread,
                   response_thread, io_fault, send_ret>>

\* The channel starts to fail (the device is unplugged).
channel_fails ==
    /\ serial_connection = "open"
    /\ ~ io_fault
    /\ io_fault' = TRUE
    /\ UNCHANGED <<restVars, linkVars, conn, disc, comm_thread,
                   response_thread, rx, send_ret>>

\* A second passes: no thread has a step to take.
tick_within(horizon) ==
    /\ now < Epoch + horizon
    /\ ~ ENABLED (connect_step \/ disconnect_step \/ loop_step)
    /\ now' = now + 1
    /\ UNCHANGED <<frameVars, active_emergencies, lockVars, cycleVars,
                   linkVars, ioVars>>

link_tick == tick_within(MaxLinkElapsed)

(***************************************************************************)
(* SpecLink: the link on its own.                                          *)
(***************************************************************************)
NextLink ==
    \/ connect_call
    \/ connect_open
    \/ connect_settled
    \/ connect_read
    \/ connect_io_error
    \/ connect_timeout
    \/ connect_mark
    \/ connect_start_threads
    \/ connect_put_status
    \/ connect_return
    \/ disconnect_call
    \/ disconnect_put_stop
    \/ disconnect_close
    \/ disconnect_return
    \/ communication_loop_exit
    \/ communication_loop_write
    \/ communication_loop_read
    \/ communication_loop_error
    \/ old_loop_exit
    \/ old_loop_error
    \/ monitor_responses_exit
    \/ start_traffic_system
    \/ stop_traffic_system
    \/ update_road_data
    \/ device_sends
    \/ channel_fails
    \/ link_tick

SpecLink == Init /\ [][NextLink]_vars

(***************************************************************************)
(* SpecDispatch: a caller of send_traffic_data beside the link, over a      *)
(* shorter time: a connect(), a disconnect() and a second connect().        *)
(***************************************************************************)
MaxDispatchElapsed == 5

DispatchRoad == Road(1, <<Car>>, FALSE)

DispatchBatches == {<<DispatchRoad>>}

dispatch_tick == tick_within(MaxDispatchElapsed)

NextDispatch ==
    \/ send_traffic_data_call(1, DispatchBatches)
    \/ send_traffic_data_step(1)
    \/ connect_call
    \/ connect_open
    \/ connect_settled
    \/ connect_read
    \/ connect_io_error
    \/ connect_mark
    \/ connect_start_threads
    \/ connect_put_status
    \/ connect_return
    \/ disconnect_call
    \/ disconnect_put_stop
    \/ disconnect_close
    \/ disconnect_return
    \/ communication_loop_exit
    \/ communication_loop_write
    \/ communication_loop_read
    \/ communication_loop_error
    \/ old_loop_exit
    \/ monitor_responses_exit
    \/ device_sends
    \/ dispatch_tick

SpecDispatch == Init /\ [][NextDispatch]_vars

(***************************************************************************)
(* SpecDefaults: batches as /arduino/update_traffic may forward them, with *)
(* keys missing from the lane entries and from the detections.  Every      *)
(* access of send_traffic_data is a dict.get with a default; the entry the *)
(* cycle works on is the entry as those reads see it (raw keeps the dict   *)
(* as it came).                                                            *)
(***************************************************************************)
\* dict.get(key, default)
Get(d, key, default) == IF key \in DOMAIN d THEN d[key] ELSE default

\* A detection that reads a missing coordinate as 0.
detection_get_origin(detection) ==
    [class |-> Get(detection, "class", Get(detection, "class_name", "")),
     x10 |-> Get(detection, "x10", 0),
     y10 |-> Get(detection, "y10", 0)]

\* Lines 200 and 422-423: the class, x and y of a detection as read.
detection_get(detection) ==
    [class |-> Get(detection, "class", Get(detection, "class_name", "")),
     x10 |-> Get(detection, "x10", 5),
     y10 |-> Get(detection, "y10", 5)]

\* Lines 191-193 (and 266-268, 281-282, 296, 308-310): the id, the detections
\* and the flag of a lane entry as read.
road_get(entry) ==
    LET detections == Get(entry, "detections", << >>)
    IN  [id |-> Get(entry, "id", 1),
         detections |-> [i \in 1..Len(detections) |-> detection_get(detections[i])],
         hasEmergencyVehicle |-> Get(entry, "hasEmergencyVehicle", FALSE),
         raw |-> entry]

PartialDetections ==
    { [class |-> "emergency-vehicle"],
      [class |-> "emergency-vehicle", x10 |-> 1, y10 |-> 1],
      [class_name |-> "police", y10 |-> 9],
      [x10 |-> 1, y10 |-> 1] }

PartialRoads ==
    { i @@ d @@ f :
         i \in {<< >>, [id |-> 2]},
         d \in {<< >>} \cup { [detections |-> << x >>] : x \in PartialDetections },
         f \in {<< >>, [hasEmergencyVehicle |-> TRUE],
                [hasEmergencyVehicle |-> FALSE]} }

DefaultsBatches ==
    { [i \in 1..Len(b) |-> road_get(b[i])] : b \in SeqsUpTo(PartialRoads, MaxBatch) }

NextDefaults ==
    \/ send_traffic_data_call(1, DefaultsBatches)
    \/ send_traffic_data_step(1)
    \/ connect
    \/ communication_loop

SpecDefaults == Init /\ [][NextDefaults]_vars

(***************************************************************************)
(* SpecScore: emergency vehicles at normalized and at pixel coordinates on *)
(* lanes 1 and 2.                                                          *)
(***************************************************************************)
ScoreXs == {1, 5, 10, 3200}
ScoreYs == {1, 9, 11}

ScoreRoads ==
    { Road(id, << [class |-> "emergency-vehicle", x10 |-> x, y10 |-> y] >>, TRUE) :
         id \in 1..2, x \in ScoreXs, y \in ScoreYs }

ScoreBatches == SeqsUpTo(ScoreRoads, MaxBatch)

NextScore ==
    \/ send_traffic_data_call(1, ScoreBatches)
    \/ send_traffic_data_step(1)
    \/ connect
    \/ communication_loop

SpecScore == Init /\ [][NextScore]_vars

(***************************************************************************)
(* SpecStall: frames arrive at detect_frame, one request at a time, and    *)
(* the clock may advance past the expiry time between them.                *)
(***************************************************************************)
NextStall ==
    \/ detect_frame_begin(1)
    \/ request_resume(1)
    \/ request_return(1)
    \/ send_traffic_data_run(1)
    \/ \E d \in TickSteps : Tick(d, MaxElapsed)
    \/ connect
    \/ communication_loop

SpecStall == Init /\ [][NextStall]_vars

(***************************************************************************)
(* SpecRace: two detect_frame requests at a time, each with a frame of     *)
(* lane 1 that shows one car.                                              *)
(***************************************************************************)
NextRace ==
    \/ \E r \in Threads : detect_frame_from(r, {1}, { <<Car>> })
    \/ \E r \in Threads : request_wake(r)
    \/ \E r \in Threads : request_resume(r)
    \/ \E r \in Threads : request_return(r)
    \/ \E r \in Threads : send_traffic_data_run(r)
    \/ Tick(1, MaxFrameElapsed)
    \/ connect
    \/ communication_loop

SpecRace == Init /\ [][NextRace]_vars

(***************************************************************************)
(* SpecQueue: the outbound queue between its producers and the writer      *)
(* loops, with the take of a command (queue.get, line 122) and its write   *)
(* (lines 123-124) as two steps of a loop.                                 *)
(***************************************************************************)
\* Some running loop has no command in hand.
loop_at_rest == running_loops > Len(in_hand)

RemoveAt(q, i) == SubSeq(q, 1, i - 1) \o SubSeq(q, i + 1, Len(q))

\* One of the running loops ends; how is "ended" or "failed".
end_one_loop(how) ==
    \/ /\ comm_thread = "running"
       /\ comm_thread' = how
       /\ UNCHANGED old_loops
    \/ /\ old_loops > 0
       /\ old_loops' = old_loops - 1
       /\ UNCHANGED comm_thread

\* A loop that takes nothing but STATUS commands from the queue.
writer_get_status_only ==
    /\ loop_at_rest
    /\ connected
    /\ command_queue # << >>
    /\ Head(command_queue).cmd = "STATUS"
    /\ in_hand' = Append(in_hand, Head(command_queue))
    /\ command_queue' = Tail(command_queue)
    /\ UNCHANGED <<baseVars, connected, serial_connection, old_loops,
                   ioVarsButOld>>

\* Lines 119-122: a loop finds connected true and the queue not empty, and
\* takes the command at its head.
writer_get ==
    /\ loop_at_rest
    /\ connected
    /\ command_queue # << >>
    /\ in_hand' = Append(in_hand, Head(command_queue))
    /\ command_queue' = Tail(command_queue)
    /\ UNCHANGED <<baseVars, connected, serial_connection, old_loops,
                   ioVarsButOld>>

\* Lines 123-125: a loop writes the command it holds.
writer_write ==
    /\ ~ channel_raises
    /\ \E i \in 1..Len(in_hand) : in_hand' = RemoveAt(in_hand, i)
    /\ UNCHANGED <<baseVars, linkVars, old_loops, ioVarsButOld>>

\* Lines 138-140: write, flush, in_waiting or read raises in a loop; the
\* command the loop holds, if any, is lost.
writer_error ==
    /\ channel_raises
    /\ running_loops > 0
    /\ \/ \E i \in 1..Len(in_hand) : in_hand' = RemoveAt(in_hand, i)
       \/ loop_at_rest /\ connected /\ UNCHANGED in_hand
    /\ connected' = FALSE
    /\ end_one_loop("failed")
    /\ UNCHANGED <<baseVars, serial_connection, command_queue, conn, disc,
                   response_thread, rx, io_fault, send_ret>>

\* Line 119: a loop finds connected false and ends.
writer_exit ==
    /\ loop_at_rest
    /\ ~ connected
    /\ end_one_loop("ended")
    /\ UNCHANGED <<baseVars, linkVars, in_hand, conn, disc, response_thread,
                   rx, io_fault, send_ret>>

\* A second passes: no thread has a step to take.
queue_tick ==
    /\ now < Epoch + MaxDispatchElapsed
    /\ ~ ENABLED (connect_step \/ writer_get \/ writer_write \/ writer_error
                     \/ writer_exit \/ monitor_responses_exit)
    /\ now' = now + 1
    /\ UNCHANGED <<frameVars, active_emergencies, lockVars, cycleVars,
                   linkVars, ioVars>>

NextQueue ==
    \/ connect_call
    \/ connect_open
    \/ connect_settled
    \/ connect_read
    \/ connect_mark
    \/ connect_start_threads
    \/ connect_put_status
    \/ connect_return
    \/ writer_get
    \/ writer_write
    \/ writer_error
    \/ writer_exit
    \/ monitor_responses_exit
    \/ start_traffic_system
    \/ stop_traffic_system
    \/ device_sends
    \/ queue_tick

SpecQueue == Init /\ [][NextQueue]_vars

\* The same under fair scheduling of the threads: a loop that can take a
\* command does, the loop that holds the oldest command taken writes it, and
\* connect() goes on to start its threads.
LiveQueue ==
    /\ SpecQueue
    /\ WF_vars(writer_get)
    /\ WF_vars(writer_write /\ in_hand' = Tail(in_hand))
    /\ WF_vars(connect_start_threads)

(***************************************************************************)
(* LiveStop: connect(), disconnect(), a failing channel and the loops,     *)
(* under fair scheduling: a thread that can take a step comes to take it,  *)
(* and time goes on.  A call is admitted while its sleeps end within the   *)
(* time the model covers.  A pass of the writer loop reads after its write *)
(* (lines 127-135) and ends with a sleep (line 137), so the read and the   *)
(* passing of time are strongly fair: no endless run of sends or of        *)
(* received bytes happens within one instant.                              *)
(***************************************************************************)
MaxStopElapsed == 6

StopEnd == Epoch + MaxStopElapsed

NextStop ==
    \/ (now + SettleSeconds + StatusDelaySeconds <= StopEnd) /\ connect_call
    \/ connect_open
    \/ connect_settled
    \/ connect_read
    \/ connect_io_error
    \/ connect_mark
    \/ connect_start_threads
    \/ connect_put_status
    \/ connect_return
    \/ (now + StopFlushSeconds <= StopEnd) /\ disconnect_call
    \/ disconnect_put_stop
    \/ disconnect_close
    \/ disconnect_return
    \/ communication_loop_exit
    \/ communication_loop_write
    \/ communication_loop_read
    \/ communication_loop_error
    \/ old_loop_exit
    \/ old_loop_error
    \/ monitor_responses_exit
    \/ start_traffic_system
    \/ device_sends
    \/ channel_fails
    \/ tick_within(MaxStopElapsed)

LiveStop ==
    /\ Init /\ [][NextStop]_vars
    /\ WF_vars(connect_step)
    /\ WF_vars(disconnect_step)
    /\ WF_vars(communication_loop_exit)
    /\ WF_vars(communication_loop_write)
    /\ SF_vars(communication_loop_read)
    /\ WF_vars(communication_loop_error)
    /\ WF_vars(old_loop_exit)
    /\ WF_vars(old_loop_error)
    /\ WF_vars(monitor_responses_exit)
    /\ SF_vars(tick_within(MaxStopElapsed))

(***************************************************************************)
(* SpecRaise: as Spec, and a statement of the cycle body may raise (an     *)
(* entry that is malformed beyond a missing key: detections that is not a  *)
(* list, a class that is not a string).  The exception leaves the try      *)
(* block of lines 186-324 through its finally.                             *)
(***************************************************************************)
\* An exception that passes by the finally clause: the lock stays held.
raise_past_finally(t) ==
    /\ pc[t] \in {"update", "emit"}
    /\ plan' = [plan EXCEPT ![t] = <<>>]
    /\ ret' = [ret EXCEPT ![t] = "raised"]
    /\ pc' = [pc EXCEPT ![t] = "done"]
    /\ UNCHANGED <<ioVars, frameVars, linkVars, active_emergencies, lockVars,
                   now, data, lock, current_time, active, sent, callConnected>>

\* Lines 190-311 raise: control goes to the finally clause of line 325.
send_traffic_data_raise(t) ==
    /\ pc[t] \in {"update", "emit"}
    /\ plan' = [plan EXCEPT ![t] = <<>>]
    /\ ret' = [ret EXCEPT ![t] = "raised"]
    /\ pc' = [pc EXCEPT ![t] = "release"]
    /\ UNCHANGED <<ioVars, frameVars, linkVars, active_emergencies, lockVars,
                   now, data, lock, current_time, active, sent, callConnected>>

NextRaise ==
    \/ \E t \in Threads : send_traffic_data_call(t, ConcBatches)
    \/ \E t \in Threads : send_traffic_data_step(t)
    \/ \E t \in Threads : send_traffic_data_raise(t)
    \/ connect
    \/ communication_loop

SpecRaise == Init /\ [][NextRaise]_vars

(***************************************************************************)
(* Claims.                                                                 *)
(***************************************************************************)
Finished(t) == pc[t] \in {"cleanup", "release", "done"} /\ ret[t] # "False"

Arbitrated(t) == pc[t] \in {"emit", "cleanup", "release"} \/ (pc[t] = "done" /\ ret[t] = "True")

\* The update_road_data calls of thread t, as <<lane, count, flag>>.
SentUpdates(t) ==
    [i \in 1..Len(sent[t]) |->
        <<sent[t][i].road_id, sent[t][i].vehicle_count, sent[t][i].has_emergency>>]

\* The Update each entry of the batch of thread t stands for.
BatchUpdates(t) ==
    [i \in 1..Len(data[t]) |->
        <<data[t][i].id, Len(data[t][i].detections),
          data[t][i].hasEmergencyVehicle>>]

\* C1: at any time at most one invocation of send_traffic_data is between
\* acquiring and releasing the dispatch lock.
C1_OneCycleAtATime ==
    Cardinality({t \in Threads : pc[t] \in BodyPcs}) <= 1

\* C2: a call that finds the dispatch lock held returns False at once: its
\* acquire step is never blocked, it leads straight to the return of False,
\* and the call has made no update_road_data call, enqueued nothing and left
\* the active-emergency table as it was.
C2_BusyStep ==
    \A t \in Threads :
       (pc[t] = "acquire" /\ lock[t] \in lockHeld /\ pc'[t] # pc[t]) =>
          /\ pc'[t] = "done"
          /\ ret'[t] = "False"
          /\ sent'[t] = <<>>
          /\ command_queue' = command_queue
          /\ active_emergencies' = active_emergencies

C2_NeverWaits ==
    \A t \in Threads : pc[t] = "acquire" => ENABLED send_traffic_data_acquire(t)

C2_BusyReturnsFalse == [] C2_NeverWaits /\ [][C2_BusyStep]_vars

C2_Witness ==
    \E t, u \in Threads :
       /\ pc[t] = "done" /\ ret[t] = "False"
       /\ pc[u] \in BodyPcs /\ lock[u] = lock[t]

\* C3: send_traffic_data returns False whenever the link is not connected when
\* it is called, and returns True only when every update_road_data call of the
\* cycle found the link connected.
C3_FalseWhenNotConnected ==
    \A t \in Threads :
       pc[t] = "done" =>
          /\ ~ callConnected[t] => ret[t] = "False"
          /\ ret[t] = "True" => \A i \in 1..Len(sent[t]) : sent[t][i].ok

\* C4: a record whose timestamp is more than 10 s old when a cycle starts is
\* not among the active emergencies that cycle arbitrates with.
C4_StaleNotArbitrated ==
    \A t \in Threads :
       Arbitrated(t) =>
          \A i \in 1..Len(active[t]) :
             ~ (current_time[t] - active[t][i].timestamp > ExpirySeconds)

\* The last entry of the batch for lane L.
LastEntry(batch, L) ==
    batch[CHOOSE i \in 1..Len(batch) :
             /\ batch[i].id = L
             /\ \A j \in (i + 1)..Len(batch) : batch[j].id # L]

BatchLanes(batch) == { batch[i].id : i \in 1..Len(batch) }

CarriesEmergency(road) ==
    \E i \in 1..Len(road.detections) : is_emergency_class(road.detections[i].class)

CycleCompletes(t) == pc[t] = "cleanup" /\ pc'[t] = "release"

\* C5 (as claimed): when a cycle completes, every lane of its batch has a
\* record if and only if the lane's most recent entry had hasEmergency = true
\* (and the record has not expired).
C5_RecordIffFlagStep ==
    \A t \in Threads :
       CycleCompletes(t) =>
          \A L \in BatchLanes(data[t]) :
             HasKey(active_emergencies', L) <=>
                /\ LastEntry(data[t], L).hasEmergencyVehicle
                /\ ~ (now - current_time[t] > ExpirySeconds)

C5_RecordIffFlaggedDetectionStep ==
    \A t \in Threads :
       CycleCompletes(t) =>
          \A L \in BatchLanes(data[t]) :
             LET e == LastEntry(data[t], L)
             IN  (e.hasEmergencyVehicle => CarriesEmergency(e)) =>
                    (HasKey(active_emergencies', L) <=>
                       /\ e.hasEmergencyVehicle
                       /\ ~ (now - current_time[t] > ExpirySeconds))

RequestSent(q, lane, count, flag) ==
    \E i \in 1..Len(q.sent) : q.sent[i] = <<lane, count, flag>>

\* C6: a frame of detect_frame with no detections, for a lane whose previous
\* dispatch had detections (and reached the link), sends the clearing
\* Update(lane, 0, false) in that request (the link being connected whenever
\* the request came to send), whatever the throttle window and whatever the
\* other lanes' emergencies.
C6_ClearingUpdateSent ==
    \A r \in Threads :
       (req[r].pc = "finished" /\ req[r].kind = "frame" /\ req[r].need_clear
          /\ req[r].prev_count > 0 /\ req[r].failed = 0) =>
          RequestSent(req[r], req[r].road_id, 0, FALSE)

\* The Update u neither clears a lane that showed vehicles nor is it for a
\* lane with an emergency.
OrdinaryUpdate(u) ==
    /\ ~ u.has_emergency
    /\ ~ HasKey(active_emergencies, u.road_id)
    /\ ~ InSeq(u.road_id, emergency_override.lanes)
    /\ ~ (u.vehicle_count = 0 /\ last_update[u.road_id].vehicle_count > 0)

\* C7: an Update handed to the link for a lane, outside the just-cleared and
\* the emergency cases, comes at least 2 seconds after the previous Update for
\* that lane, on every ingestion path.
C7_TwoSecondsApart ==
    \A r \in Threads :
       (req[r].pc = "await" /\ pc[r] = "done") =>
          \A i \in 1..Len(sent[r]) :
             LET u == sent[r][i]
             IN  (u.ok /\ OrdinaryUpdate(u) /\ last_update[u.road_id].sent) =>
                    u.at - last_update[u.road_id].at >= ThrottleSeconds

\* C8: a frame that shows an emergency vehicle on its lane is never held back
\* by the throttle (nor skipped by the override): the request goes to
\* dispatch, and with the link connected and the dispatch cycle run it hands
\* over the lane's Update with the emergency flag.
C8_EmergencyLaneNotThrottled ==
    \A r \in Threads :
       (req[r].pc = "finished" /\ has_emergency_of(req[r].detections)) =>
          /\ req[r].outcome = "dispatch"
          /\ req[r].failed = 0 =>
                RequestSent(req[r], req[r].road_id, Len(req[r].detections), TRUE)

C8_Witness ==
    \E r \in Threads :
       /\ req[r].pc = "finished" /\ req[r].kind = "frame"
       /\ has_emergency_of(req[r].detections)
       /\ req[r].now_time - req[r].last_send < ThrottleSeconds
       /\ req[r].failed = 0
       /\ RequestSent(req[r], req[r].road_id, Len(req[r].detections), TRUE)

\* An Update with an emergency precedes one without; among equals of that, the
\* larger vehicle count precedes.
Precedes(a, b) == (a[3] /\ ~ b[3]) \/ (a[3] = b[3] /\ a[2] > b[2])

Bijections(n) ==
    { f \in [1..n -> 1..n] : \A i, j \in 1..n : f[i] = f[j] => i = j }

\* out is the stable sort of in by (flag descending, count descending).
IsStableDefaultOrder(out, in) ==
    /\ Len(out) = Len(in)
    /\ \E f \in Bijections(Len(in)) :
          /\ \A i \in 1..Len(in) : out[i] = in[f[i]]
          /\ \A i, j \in 1..Len(in) :
                i < j => /\ ~ Precedes(in[f[j]], in[f[i]])
                         /\ ~ Precedes(in[f[i]], in[f[j]]) => f[i] < f[j]

\* C9: a cycle that arbitrates with 0 or 1 active record makes its
\* update_road_data calls in the order of a stable sort of the batch by
\* (hasEmergency descending, vehicle count descending).
C9_DefaultOrderStable ==
    \A t \in Threads :
       (Finished(t) /\ Len(active[t]) <= 1) =>
          IsStableDefaultOrder(SentUpdates(t), BatchUpdates(t))

C9_Witness ==
    \E t \in Threads :
       /\ Finished(t) /\ Len(active[t]) = 1
       /\ Len(data[t]) = 2
       /\ ~ data[t][1].hasEmergencyVehicle /\ data[t][2].hasEmergencyVehicle
       /\ Len(data[t][1].detections) > Len(data[t][2].detections)
       /\ SentUpdates(t) = << BatchUpdates(t)[2], BatchUpdates(t)[1] >>
       /\ \A i \in 1..2 : sent[t][i].ok

\* C10: a cycle that arbitrates with exactly two active records, on lanes 1
\* and 3, dispatches every entry of its batch (both emergency lanes among
\* them) and delays none.
C10_PerpendicularNoDelay ==
    \A t \in Threads :
       (Finished(t) /\ Len(active[t]) = 2 /\ KeysOf(active[t]) = {1, 3}) =>
          /\ SentUpdates(t) = BatchUpdates(t)
          /\ \A i \in 1..Len(sent[t]) : ~ sent[t][i].delayed

C10_Witness ==
    \E t \in Threads :
       /\ Finished(t)
       /\ Len(active[t]) = 2 /\ active[t][1].id = 3 /\ active[t][2].id = 1
       /\ BatchLanes(data[t]) = {1, 3}
       /\ \A i \in 1..Len(data[t]) : data[t][i].hasEmergencyVehicle
       /\ Len(sent[t]) = 2

\* The record of lane L among the records a cycle arbitrated with.
RecordOf(table, L) == table[CHOOSE i \in 1..Len(table) : table[i].id = L]

\* The lane with the strictly smaller score; on equal scores the lower id.
CloserLane(a, b) ==
    IF a.distance < b.distance THEN a.id
    ELSE IF b.distance < a.distance THEN b.id
    ELSE IF a.id < b.id THEN a.id ELSE b.id

\* C11: a cycle that arbitrates with exactly two records, on a pair other than
\* {1, 3}, treats exactly one of the two lanes as the priority lane: the one
\* with the strictly smaller score, on equal scores the lower lane id,
\* whatever the order in which the records were created.  Every emergency
\* entry of the batch for the other lane is delayed, none for the priority
\* lane is.
C11_PriorityIsCloserLane ==
    \A t \in Threads :
       (Finished(t) /\ Len(active[t]) = 2 /\ KeysOf(active[t]) # {1, 3}) =>
          LET p == CloserLane(active[t][1], active[t][2])
          IN  \A i \in 1..Len(sent[t]) :
                 sent[t][i].has_emergency =>
                    (sent[t][i].delayed <=> sent[t][i].road_id # p)

\* C12: a cycle that arbitrates with more than two records applies the
\* priority delay (it never takes the simultaneous path) and emits the Updates
\* of its emergency lanes by ascending score.
C12_ManyEmergenciesByScore ==
    \A t \in Threads :
       (Finished(t) /\ Len(active[t]) > 2) =>
          \A i, j \in 1..Len(sent[t]) :
             (i < j /\ sent[t][i].has_emergency /\ sent[t][j].has_emergency
                /\ HasKey(active[t], sent[t][i].road_id)
                /\ HasKey(active[t], sent[t][j].road_id)) =>
                RecordOf(active[t], sent[t][i].road_id).distance
                   <= RecordOf(active[t], sent[t][j].road_id).distance

\* C13: a cycle that arbitrates with exactly two records, on lanes 1 and 3,
\* emits the Updates of its batch in the default order: the stable sort by
\* (hasEmergency descending, vehicle count descending).
C13_SimultaneousDefaultOrder ==
    \A t \in Threads :
       (Finished(t) /\ Len(active[t]) = 2 /\ KeysOf(active[t]) = {1, 3}) =>
          IsStableDefaultOrder(SentUpdates(t), BatchUpdates(t))

\* connected turns true.
BecomesConnected == ~ connected /\ connected'

\* A command leaves the outbound queue: it is written to the channel (or lost
\* in the attempt).
CommandTaken == command_queue # <<>> /\ command_queue' = Tail(command_queue)

\* C14: a connect() call that ends by the handshake timeout (the device has
\* not sent a line with the ready marker) returns False 8 to 11 seconds after
\* the call, with the channel closed, connected false, and without having
\* started the writer or the response loop.
C14_TimeoutStep ==
    (conn.pc = "handshake" /\ conn'.pc = "returned" /\ conn'.how = "timeout") =>
       /\ conn'.ret = "False"
       /\ ~ conn'.found_init
       /\ now' - conn'.called >= 8
       /\ now' - conn'.called <= 11
       /\ serial_connection' = "closed"
       /\ ~ connected'
       /\ ~ conn'.started

C14_TimeoutReturnsFalse == [][C14_TimeoutStep]_vars

C14_Witness ==
    /\ conn.pc = "returned" /\ conn.how = "timeout"
    /\ now - conn.called = SettleSeconds + HandshakeSeconds
    /\ comm_thread = "none"

\* C15: connected turns true only in a connect() call that has read a complete
\* line containing the ready marker on the channel it opened, and no command
\* is written to that channel before that point (while the call settles or
\* handshakes).
C15_HandshakeStep ==
    /\ BecomesConnected =>
          /\ conn.pc = "found" /\ conn.found_init /\ conn'.pc = "start"
    /\ (conn'.found_init /\ ~ conn.found_init) =>
          /\ rx # <<>> /\ Head(rx) = "newline" /\ conn.buffer_has_marker
    /\ CommandTaken => conn.pc \notin {"settle", "handshake", "found"}

C15_ConnectedOnlyByHandshake == [][C15_HandshakeStep]_vars

\* C16: a send (start_traffic_system, stop_traffic_system, update_road_data)
\* on a link that is not connected returns False and enqueues nothing; on a
\* connected link it enqueues exactly its one command, returns True and leaves
\* the command in the queue (it does not wait for the transmission).
C16_SendStep ==
    (start_traffic_system \/ stop_traffic_system \/ update_road_data) =>
       IF connected
       THEN /\ send_ret' = "True"
            /\ Len(command_queue') = Len(command_queue) + 1
            /\ SubSeq(command_queue', 1, Len(command_queue)) = command_queue
       ELSE /\ send_ret' = "False"
            /\ command_queue' = command_queue

C16_SendEnqueuesIffConnected == [][C16_SendStep]_vars

C16_Witness ==
    /\ send_ret = "True"
    /\ connected
    /\ command_queue # <<>>
    /\ command_queue[Len(command_queue)].cmd = "UPDATE"

\* C17: disconnect(), called in any state of the link, returns without
\* raising and with connected false.
C17_DisconnectStep ==
    (disc.pc # "returned" /\ disc'.pc = "returned") =>
       (~ disc'.raised /\ ~ connected')

C17_DisconnectLeavesFalse == [][C17_DisconnectStep]_vars

\* C18: when a disconnect() call came while a connect() call was in its settle
\* or handshake phase, then at the moment both calls have returned connected
\* is false, the channel (if it works at all) is closed and no writer loop
\* runs.
C18_BothReturnStep ==
    (/\ disc'.pc = "returned" /\ conn'.pc = "returned"
     /\ ~ (disc.pc = "returned" /\ conn.pc = "returned")
     /\ disc'.conn_phase \in {"settle", "handshake"}
     /\ conn'.called <= disc'.called
     /\ ~ io_fault') =>
       /\ ~ connected'
       /\ serial_connection' # "open"
       /\ comm_thread' # "running"

C18_SafeMidHandshake == [][C18_BothReturnStep]_vars

\* C19: an exception in a writer loop sets connected false and ends that
\* loop; a loop that has ended takes no command and reads nothing; while
\* connected is false every send returns False and enqueues nothing.
C19_WriterStep ==
    /\ (CommandTaken /\ channel_raises) =>
          (connected' = FALSE /\ running_loops' = running_loops - 1)
    /\ (comm_thread = "running" /\ comm_thread' = "failed") =>
          connected' = FALSE
    /\ running_loops' < running_loops => connected' = FALSE
    /\ running_loops = 0 =>
          /\ ~ CommandTaken
          /\ (rx' # rx /\ rx # <<>>) =>
                (conn.pc \in {"open", "handshake"} \/ rx' = Append(rx, rx'[Len(rx')]))
    /\ (~ connected /\ send_ret' # send_ret) =>
          (send_ret' = "False" /\ command_queue' = command_queue)

C19_WriterFailureDisconnects == [][C19_WriterStep]_vars

C19_Witness ==
    /\ comm_thread = "failed"
    /\ ~ connected
    /\ send_ret = "False"
    /\ conn.pc = "idle" /\ disc.pc = "idle"

\* C20: connected, once false, turns true only at line 45 of a connect() call
\* whose handshake has found the ready marker; no loop, no send and no step
\* of send_traffic_data sets it.
C20_ReconnectStep ==
    BecomesConnected =>
       /\ conn.pc = "found"
       /\ conn.found_init
       /\ UNCHANGED <<comm_thread, response_thread, command_queue, send_ret,
                      pc, sent, ret>>

C20_NoAutomaticReconnect == [][C20_ReconnectStep]_vars

C20_Witness ==
    /\ connected
    /\ conn.pc = "start"
    /\ comm_thread \in {"ended", "failed"}
    /\ pc[1] = "done"
    /\ \E i \in 1..Len(sent[1]) : ~ sent[1][i].ok

\* C21: at any time at most one writer/reader loop (_communication_loop) is
\* running, over every sequence of connect() and disconnect() calls, a
\* connect() while already connected included.
C21_SingleWriterLoop == running_loops <= 1

\* out holds the elements of in, each as often as in does.
IsPermutation(out, in) ==
    /\ Len(out) = Len(in)
    /\ \E f \in Bijections(Len(in)) : \A i \in 1..Len(in) : out[i] = in[f[i]]

\* C22: a cycle that has acquired the lock makes one update_road_data call for
\* every entry of its batch, in each of the three branches, whether or not the
\* calls before it succeeded.
C22_EveryLaneAttempted ==
    \A t \in Threads :
       Finished(t) => IsPermutation(SentUpdates(t), BatchUpdates(t))

C22_Witness ==
    \E t \in Threads :
       /\ Finished(t)
       /\ Len(active[t]) = 2 /\ KeysOf(active[t]) # {1, 3}
       /\ Len(sent[t]) = 2
       /\ ~ sent[t][1].ok
       /\ sent[t][2].ok

\* The Update a lane entry stands for when every missing key is read as its
\* default: lane 1, no detections, no emergency.
RawUpdate(entry) ==
    << IF "id" \in DOMAIN entry THEN entry.id ELSE 1,
       IF "detections" \in DOMAIN entry THEN Len(entry.detections) ELSE 0,
       IF "hasEmergencyVehicle" \in DOMAIN entry
          THEN entry.hasEmergencyVehicle ELSE FALSE >>

\* The squared score of a detection at the centre of the frame, (0.5, 0.5).
CentreScore == (image_height * 5) * (image_height * 5)

\* C23: a cycle over a batch with missing keys runs to its end and makes one
\* update_road_data call per entry, with lane 1 for a missing id, zero
\* vehicles for missing detections and no emergency for a missing flag; a
\* lane whose last entry has no flag has no record; an emergency detection
\* without x and y is scored as one at the centre of the frame.
C23_MissingFieldsUseDefaults ==
    \A t \in Threads :
       Finished(t) =>
          /\ IsPermutation(SentUpdates(t),
                           [i \in 1..Len(data[t]) |-> RawUpdate(data[t][i].raw)])
          /\ \A L \in BatchLanes(data[t]) :
                LET e == LastEntry(data[t], L)
                    k == find_emergency_vehicle(e.detections, 1)
                IN  /\ "hasEmergencyVehicle" \notin DOMAIN e.raw =>
                          ~ HasKey(active[t], L)
                    /\ (e.hasEmergencyVehicle /\ k # 0
                          /\ DOMAIN e.raw.detections[k] \cap {"x10", "y10"} = {}) =>
                          /\ HasKey(active[t], L)
                          /\ RecordOf(active[t], L).distance = CentreScore

C23_Witness ==
    \E t \in Threads :
       /\ pc[t] = "done" /\ ret[t] = "True"
       /\ Len(data[t]) = 2
       /\ data[t][1].raw = [hasEmergencyVehicle |-> TRUE,
                            detections |-> << [class |-> "emergency-vehicle"] >>]
       /\ data[t][2].raw = [id |-> 2]
       /\ SentUpdates(t) = << <<1, 1, TRUE>>, <<2, 0, FALSE>> >>
       /\ \A i \in 1..2 : sent[t][i].ok
       /\ HasKey(active_emergencies, 1)
       /\ RecordOf(active_emergencies, 1).distance = CentreScore

\* The squared distance, in tenth-pixels, of the centre of a detection to the
\* point (320, 0): the centre is (x, y) in pixels when x or y is above 1.0,
\* (x * 640, y * 480) otherwise.
ExpectedScore(d) ==
    LET cx == IF d.x10 > 10 \/ d.y10 > 10 THEN d.x10 ELSE d.x10 * 640
        cy == IF d.x10 > 10 \/ d.y10 > 10 THEN d.y10 ELSE d.y10 * 480
    IN  (cx - 3200) * (cx - 3200) + cy * cy

NearScore == 2560 * 2560 + 480 * 480
FarScore == 4320 * 4320

\* C24: the record a cycle makes for a lane carries the squared Euclidean
\* distance of the lane's emergency detection to (320, 0), and of two
\* conflicting lanes with different scores the one with the smaller score is
\* the priority lane: its emergency entries are not delayed, the other
\* lane's are.
C24_ScoreIsDistanceToCamera ==
    \A t \in Threads :
       Finished(t) =>
          /\ \A L \in BatchLanes(data[t]) :
                LET e == LastEntry(data[t], L)
                IN  /\ HasKey(active[t], L)
                    /\ RecordOf(active[t], L).distance =
                          ExpectedScore(e.detections[1])
          /\ (Len(active[t]) = 2
                /\ active[t][1].distance # active[t][2].distance) =>
                \A i \in 1..Len(sent[t]) :
                   sent[t][i].delayed <=>
                      RecordOf(active[t], sent[t][i].road_id).distance
                         > RecordOf(active[t], 3 - sent[t][i].road_id).distance

C24_Witness ==
    \E t \in Threads :
       /\ Finished(t)
       /\ data[t] = << Road(1, << EmergencyFar >>, TRUE),
                       Road(2, << EmergencyNear >>, TRUE) >>
       /\ RecordOf(active[t], 1).distance = FarScore
       /\ RecordOf(active[t], 2).distance = NearScore
       /\ sent[t][1].road_id = 1 /\ sent[t][1].delayed
       /\ sent[t][2].road_id = 2 /\ ~ sent[t][2].delayed

\* Every lane of the emergency override had its last frame more than
\* ExpirySeconds before time t0, and that frame reached the device link.
OverrideLanesStalled(t0) ==
    \A i \in 1..Len(emergency_override.lanes) :
       LET lane == emergency_override.lanes[i]
       IN  /\ t0 - last_arduino_send[lane] > ExpirySeconds
           /\ last_update[lane].sent
           /\ last_update[lane].at = last_arduino_send[lane]

\* C25: a frame without an emergency that arrives, with the link connected,
\* when every emergency lane has been silent for more than 10 seconds is
\* dispatched or throttled like any frame: it is not skipped on account of
\* the override, and the override is not in force.
C25_StalledEmergencyExpires ==
    \A r \in Threads :
       (/\ req[r].pc = "finished" /\ req[r].kind = "frame"
        /\ ~ has_emergency_of(req[r].detections)
        /\ connected
        /\ OverrideLanesStalled(req[r].now_time)) =>
          /\ req[r].outcome # "override_skip"
          /\ ~ emergency_override.active

\* Request r has come through the throttle and has handed an Update for its
\* lane to the device link.
ThrottledDispatch(r) ==
    /\ req[r].pc = "finished" /\ req[r].kind = "frame"
    /\ req[r].branch = "normal"
    /\ req[r].sent # << >>

\* C26: of two detect_frame requests for the same lane that both dispatch an
\* Update through the throttle (no override, lane not just cleared), one
\* passed the throttle check at least 2 seconds after the other.
C26_ThrottleAtomic ==
    \A r1, r2 \in Threads :
       (/\ r1 # r2
        /\ ThrottledDispatch(r1) /\ ThrottledDispatch(r2)
        /\ req[r1].road_id = req[r2].road_id
        /\ req[r1].now_time <= req[r2].now_time) =>
          req[r2].now_time - req[r1].now_time >= ThrottleSeconds

\* The cycle of thread t arbitrated a conflict: two or more records that may
\* not proceed together.
Conflicting(t) ==
    /\ Len(active[t]) >= 2
    /\ ~ (Len(active[t]) = 2 /\ KeysOf(active[t]) = {1, 3})

\* The lane the cycle treats as the priority lane: the first of the records
\* with the smallest score.
PriorityLaneOf(table) ==
    table[CHOOSE i \in 1..Len(table) :
             /\ \A j \in 1..Len(table) : table[i].distance <= table[j].distance
             /\ \A j \in 1..(i - 1) : table[j].distance > table[i].distance].id

\* C27: in a conflicting cycle every entry of the batch is sent, in the
\* cycle, and an entry is sent after the delay if and only if it is flagged
\* as emergency and its lane is not the priority lane.
C27_OnlyNonPriorityDelayed ==
    \A t \in Threads :
       (Finished(t) /\ Conflicting(t)) =>
          /\ IsPermutation(SentUpdates(t), BatchUpdates(t))
          /\ \A i \in 1..Len(sent[t]) :
                sent[t][i].delayed <=>
                   /\ sent[t][i].has_emergency
                   /\ sent[t][i].road_id # PriorityLaneOf(active[t])

C27_Witness ==
    \E t \in Threads :
       /\ Finished(t) /\ Conflicting(t)
       /\ Len(sent[t]) = 2
       /\ sent[t][1].road_id # PriorityLaneOf(active[t])
       /\ sent[t][1].has_emergency /\ sent[t][1].delayed
       /\ ~ sent[t][2].has_emergency /\ ~ sent[t][2].delayed
       /\ sent[t][2].ok

\* The batch has an entry for lane L that reports no emergency.
ReportsNoEmergency(batch, L) ==
    \E i \in 1..Len(batch) : batch[i].id = L /\ ~ batch[i].hasEmergencyVehicle

\* The cycle of thread t is past its expiry step.
Cleaned(t) == pc[t] = "release" \/ (pc[t] = "done" /\ ret[t] = "True")

\* C28 (as claimed): a lane with an entry in the batch that has
\* hasEmergency = false is not among the records the cycle arbitrates with
\* and has no record after the cycle.
C28_ClearedBeforeArbitration ==
    \A t \in Threads :
       \A L \in BatchLanes(data[t]) :
          ReportsNoEmergency(data[t], L) =>
             /\ Arbitrated(t) => ~ HasKey(active[t], L)
             /\ Cleaned(t) => ~ HasKey(active_emergencies, L)

\* C28 (amended): the same, for a lane whose last entry in the batch has
\* hasEmergency = false.
C28_LastEntryClearsBeforeArbitration ==
    \A t \in Threads :
       \A L \in BatchLanes(data[t]) :
          ~ LastEntry(data[t], L).hasEmergencyVehicle =>
             /\ Arbitrated(t) => ~ HasKey(active[t], L)
             /\ Cleaned(t) => ~ HasKey(active_emergencies, L)

C28_Witness ==
    \E t \in Threads :
       /\ Cleaned(t)
       /\ Len(data[t]) = 2
       /\ data[t][1].id = data[t][2].id
       /\ data[t][1].hasEmergencyVehicle /\ CarriesEmergency(data[t][1])
       /\ ~ data[t][2].hasEmergencyVehicle
       /\ ~ HasKey(active[t], data[t][1].id)
       /\ Len(active[t]) = 1

\* The cycle of thread t has made or refreshed the record of lane L.
RefreshedBy(t, L) ==
    /\ L \in BatchLanes(data[t])
    /\ LastEntry(data[t], L).hasEmergencyVehicle
    /\ CarriesEmergency(LastEntry(data[t], L))

\* C29: the expiry step of a cycle runs after the last update_road_data call
\* of the cycle, changes nothing of what was sent, and does not drop a record
\* that the cycle itself has made or refreshed.
C29_ExpiryStep ==
    \A t \in Threads :
       (pc[t] = "cleanup" /\ pc'[t] = "release") =>
          /\ plan[t] = << >>
          /\ sent'[t] = sent[t]
          /\ \A L \in Lanes :
                (RefreshedBy(t, L) /\ HasKey(active_emergencies, L)) =>
                   HasKey(active_emergencies', L)

C29_ExpiryAfterEmission == [][C29_ExpiryStep]_vars

\* C30: a loop takes one command at a time, the one at the head of the
\* queue; a producer adds its command at the tail; and the command a loop
\* writes is the oldest of the commands taken and not yet written, so that
\* the device receives the commands in the order of their enqueueing, each
\* once.
C30_WriterStep ==
    /\ writer_get =>
          /\ in_hand' = Append(in_hand, Head(command_queue))
          /\ command_queue' = Tail(command_queue)
    /\ (start_traffic_system \/ stop_traffic_system \/ connect_put_status) =>
          \/ command_queue' = command_queue
          \/ /\ Len(command_queue') = Len(command_queue) + 1
             /\ SubSeq(command_queue', 1, Len(command_queue)) = command_queue
    /\ writer_write => in_hand' = Tail(in_hand)

C30_WrittenInQueueOrder == [][C30_WriterStep]_vars

\* Request r has handed an Update of its own lane to the device link.
HandedOwnUpdate(q) ==
    \E i \in 1..Len(q.sent) : q.sent[i][1] = q.road_id

\* C35: a detect_frame request that ends without having handed an Update of
\* its lane to the device link (the link was not connected, or the cycle was
\* skipped as busy) leaves the lane's last-send time and last-sent
\* detections as they were.
C35_FrameStep ==
    \A r \in Threads :
       (/\ req[r].pc # "finished" /\ req'[r].pc = "finished"
        /\ req'[r].kind = "frame"
        /\ ~ HandedOwnUpdate(req'[r])) =>
          /\ last_arduino_send'[req'[r].road_id]
                = last_arduino_send[req'[r].road_id]
          /\ last_sent_detections'[req'[r].road_id]
                = last_sent_detections[req'[r].road_id]

C35_RememberedOnlyWhenSent == [][C35_FrameStep]_vars

\* C36: a detect_frame request hands at most one Update to the device link,
\* however many lanes the emergency override holds.
C36_OneCyclePerRequest ==
    \A r \in Threads :
       req[r].kind = "frame" => Len(req[r].sent) <= 1

\* C34: a cycle that ends, by its return or by an exception, has released
\* the lock it acquired: when no thread is in the body no lock is held, and a
\* call is refused at the acquire only while another thread is in the body
\* holding the same lock.
C34_LockStep ==
    /\ (\A t \in Threads : pc'[t] \notin BodyPcs) => lockHeld' = {}
    /\ \A t \in Threads :
          /\ (pc[t] = "release" /\ pc'[t] = "done") => lock[t] \notin lockHeld'
          /\ (pc[t] = "acquire" /\ pc'[t] = "done") =>
                \E u \in Threads \ {t} : pc[u] \in BodyPcs /\ lock[u] = lock[t]

C34_LockReleasedAtEnd == [][C34_LockStep]_vars

C34_Witness ==
    /\ pc[1] = "done" /\ ret[1] = "raised"
    /\ pc[2] = "done" /\ ret[2] = "True"
    /\ lock[1] = lock[2]
    /\ lockHeld = {}

\* C33: when a connect() establishes the link the outbound queue holds no
\* command from before: the writer loop of the session writes whatever it
\* finds in the queue, oldest first, so a command left there by an earlier
\* session or by disconnect() would be the first one transmitted.
C33_SessionStep == BecomesConnected => command_queue = << >>

C33_OnlyCommandsOfTheSession == [][C33_SessionStep]_vars

\* C31: as long as the link stays connected and the channel raises nothing,
\* the writer loop keeps taking the command at the head of the queue and
\* writing the oldest command it holds: again and again either the queue is
\* empty or a command is taken from it, and either no command is in hand or
\* the oldest one in hand is written.  The queue being first in, first out,
\* every accepted command is written after finitely many such steps.
C31_AcceptedIsWritten ==
    /\ \/ []<>(command_queue = << >> \/ ~ connected \/ channel_raises)
       \/ []<><<writer_get>>_vars
    /\ \/ []<>(in_hand = << >> \/ channel_raises)
       \/ []<><<writer_write /\ in_hand' = Tail(in_hand)>>_vars

C31_Witness ==
    /\ send_ret = "True"
    /\ connected /\ ~ channel_raises
    /\ conn.pc = "idle"
    /\ command_queue = << >> /\ in_hand = << >>

\* No loop is running: neither a writer loop nor the response loop.
LoopsEnded ==
    /\ running_loops = 0
    /\ response_thread # "running"

=============================================================================
